---- MODULE Spec2Model ----
(***************************************************************************)
(* Shade invoice engine (contracts/shade) and the merchant escrow account  *)
(* (contracts/account): the invoice lifecycle, the fee split of a payment, *)
(* the refund window and the escrow refunds, as a state machine.  Every    *)
(* entry point is one atomic step: a Soroban invocation either commits all *)
(* of its writes and transfers or, on a panic, none of them.               *)
(***************************************************************************)
EXTENDS Integers, Sequences, FiniteSets, TLC

VARIABLES
    admin,            \* DataKey::Admin
    paused,           \* DataKey::Paused
    acceptedTokens,   \* DataKey::AcceptedTokens
    feeBps,           \* DataKey::FeeInBasisPoints(token)
    merchants,        \* DataKey::Merchant(id) / DataKey::MerchantId(address)
    merchantAccount,  \* DataKey::MerchantBalance(merchant address)
    invoices,         \* DataKey::Invoice(id), DataKey::InvoiceCount = Len
    bal,              \* the token ledger: bal[token][holder]
    restricted,       \* the escrow account's restricted flag, per escrow
    tracked,          \* the escrow account's DataKey::TrackedTokens, per escrow
    accountEvents,    \* what the escrow account published in the last operation
    roles,            \* DataKey::Role(address, role): the explicit grants
    contractInfo,     \* DataKey::ContractInfo
    engineEvents,     \* what the engine published in its last invoice or role call
    now,              \* env.ledger().timestamp()
    last              \* the last invocation: entry point and outcome

vars == <<admin, paused, acceptedTokens, feeBps, merchants, merchantAccount,
          invoices, bal, restricted, tracked, accountEvents, roles,
          contractInfo, engineEvents, now, last>>

----------------------------------------------------------------------------
(* Bounds of the model *)

MaxInvoices == 1
MaxSecs == 1
MaxCreated == 3
MaxListed == 2
(* The width the model gives the 128-bit integers of the program *)
AmountBits == 29

(* Program constants *)

MAX_REFUND_DURATION == 604800
BPS_DENOMINATOR == 10000

----------------------------------------------------------------------------
(* Identities and input domains *)

NoAddr == "none"
NoTime == -1

Admin0 == "ADMIN"
Engine == "ENGINE"
MerchantAddrs == {"M1", "M2"}
Payers == {"P1", "P2"}
Escrows == {"E1"}
Outsider == "X"
Addrs == MerchantAddrs \cup Payers \cup Escrows \cup {Admin0, Engine, Outsider}
Tokens == {"T"}

(* Who may sign a call made in the name of who: who itself, or somebody else *)
SignersFor(who) == {who, Outsider}
(* The addresses a merchant entry point is called with: the registered       *)
(* merchants and an address that never registers                             *)
MerchantArgs == MerchantAddrs \cup {Outsider}
AdminArgs == {Admin0, "M1"}

EscrowOf(m) == "E1"

CreateAmounts == {0, 10, 1000}
RefundAmounts == {0, 275, 725}
FeeRates == {0, 500, 10000, 20000}
InvoiceIds == 1..(MaxInvoices + 1)
TimePoints == {0} \cup {MAX_REFUND_DURATION + s : s \in 0..MaxSecs}

Statuses == {"Pending", "Paid", "Cancelled", "Refunded", "PartiallyRefunded"}

----------------------------------------------------------------------------
(* Merchant registry *)

MerchantId(addr) ==
    IF \E i \in 1..Len(merchants) : merchants[i] = addr
    THEN CHOOSE i \in 1..Len(merchants) : merchants[i] = addr
    ELSE 0

is_merchant(addr) == MerchantId(addr) # 0

(* Pause switch *)

is_paused == paused

(* Accepted tokens and fee *)

is_accepted_token(token) == token \in acceptedTokens

get_fee(token) == feeBps[token]

----------------------------------------------------------------------------
(* The last invocation *)

Call(op, err) == [op |-> op, err |-> err]

NoCall == Call("none", "ok")

----------------------------------------------------------------------------
(* Invoice storage *)

InvoiceExists(id) == id \in 1..Len(invoices)

NewInvoice(id, description, amount, token, merchant_id) ==
    [id |-> id, description |-> description, amount |-> amount,
     token |-> token, status |-> "Pending", merchant_id |-> merchant_id,
     payer |-> NoAddr, date_created |-> now, date_paid |-> NoTime,
     amount_refunded |-> 0]

(* get_invoice *)

NoInvoice == [id |-> 0]

get_invoice(invoice_id) ==
    IF InvoiceExists(invoice_id)
    THEN [err |-> "ok", invoice |-> invoices[invoice_id]]
    ELSE [err |-> "InvoiceNotFound", invoice |-> NoInvoice]

(* get_invoices(filter) *)

(* Option<T>: None, Some(v) *)
None == <<>>
Some(v) == <<v>>

(* The i128 and u128 of the program, at the model's width *)
MaxSigned == 2^(AmountBits - 1) - 1
MaxUnsigned == 2^AmountBits - 1

(* v as i128, v an u128 *)
AsSigned(v) == IF v > MaxSigned THEN v - 2^AmountBits ELSE v

(* status as u32 *)
StatusCode(status) ==
    CASE status = "Pending" -> 0
      [] status = "Paid" -> 1
      [] status = "Cancelled" -> 2
      [] status = "Refunded" -> 3
      [] status = "PartiallyRefunded" -> 4

InvoiceFilter(status, merchant, min_amount, max_amount) ==
    [status |-> status, merchant |-> merchant,
     min_amount |-> min_amount, max_amount |-> max_amount]

FilterMatches(invoice, filter) ==
    /\ filter.status # None => StatusCode(invoice.status) = filter.status[1]
    /\ filter.merchant # None =>
          /\ is_merchant(filter.merchant[1])
          /\ invoice.merchant_id = MerchantId(filter.merchant[1])
    /\ filter.min_amount # None =>
          ~(invoice.amount < AsSigned(filter.min_amount[1]))
    /\ filter.max_amount # None =>
          ~(invoice.amount > AsSigned(filter.max_amount[1]))

get_invoices(filter) ==
    LET Keeps(invoice) == FilterMatches(invoice, filter)
    IN  SelectSeq(invoices, Keeps)

(* The outcome of an invoice handler: the error ("ok" when none), the       *)
(* storage and ledger it leaves, the fee and merchant amount it computed,   *)
(* the events the escrow account (events) and the engine (published)        *)
(* publish, and the value it returns (ret).  A panic leaves storage and     *)
(* ledger as they were and publishes nothing.                               *)
Outcome(err, invs, b, fee, net) ==
    [err |-> err, invoices |-> invs, bal |-> b, fee |-> fee, net |-> net,
     events |-> <<>>, published |-> <<>>, ret |-> 0]

Panic(err) == Outcome(err, invoices, bal, 0, 0)

(* The engine's invoice events *)

InvoiceCreatedEvent(invoice_id, merchant, amount, token) ==
    [name |-> "invoice_created", invoice_id |-> invoice_id,
     merchant |-> merchant, amount |-> amount, token |-> token]

InvoicePaidEvent(invoice_id, payer, amount, fee, merchant_amount) ==
    [name |-> "invoice_paid", invoice_id |-> invoice_id, payer |-> payer,
     amount |-> amount, fee |-> fee, merchant_amount |-> merchant_amount,
     timestamp |-> now]

InvoiceCancelledEvent(invoice_id, merchant) ==
    [name |-> "invoice_cancelled", invoice_id |-> invoice_id,
     merchant |-> merchant, timestamp |-> now]

InvoiceRefundedEvent(invoice_id, merchant, amount) ==
    [name |-> "invoice_refunded", invoice_id |-> invoice_id,
     merchant |-> merchant, amount |-> amount, timestamp |-> now]

InvoicePartiallyRefundedEvent(invoice_id, merchant, amount, total_refunded) ==
    [name |-> "invoice_partially_refunded", invoice_id |-> invoice_id,
     merchant |-> merchant, amount |-> amount,
     total_refunded |-> total_refunded, timestamp |-> now]

(* create_invoice *)

InvalidCreateAmountNegative(amount) == amount < 0

InvalidCreateAmount(amount) == amount <= 0

(* The id of the next invoice, from the invoice count and the merchant's id *)
NewInvoiceIdOfMerchant(invoice_count, merchant_id) ==
    Cardinality({i \in 1..invoice_count :
                    invoices[i].merchant_id = merchant_id}) + 1

NewInvoiceId(invoice_count, merchant_id) == invoice_count + 1

create_invoice(signer, merchant_address, description, amount, token) ==
    IF signer # merchant_address THEN Panic("AuthError")
    ELSE IF InvalidCreateAmount(amount) THEN Panic("InvalidAmount")
    ELSE IF ~is_merchant(merchant_address) THEN Panic("NotAuthorized")
    ELSE
    LET new_invoice_id == NewInvoiceId(Len(invoices), MerchantId(merchant_address))
    IN  [Outcome("ok",
                 Append(invoices,
                        NewInvoice(new_invoice_id, description, amount, token,
                                   MerchantId(merchant_address))),
                 bal, 0, 0)
         EXCEPT !.published = <<InvoiceCreatedEvent(new_invoice_id, merchant_address,
                                                    amount, token)>>,
                !.ret = new_invoice_id]

----------------------------------------------------------------------------
(* Token ledger: transfer(from, to, amount) on balances b of one token *)

CanTransfer(b, from, amount) == amount >= 0 /\ b[from] >= amount

Transfer(b, from, to, amount) ==
    LET debited == [b EXCEPT ![from] = @ - amount]
    IN  [debited EXCEPT ![to] = @ + amount]

----------------------------------------------------------------------------
(* pay_invoice *)

TruncDiv(a, b) == IF a >= 0 THEN a \div b ELSE -((-a) \div b)

(* amount * fee_bps in the width of the program's integers, for an amount   *)
(* and a rate that are not negative: whether the product leaves the signed  *)
(* range, and the product as a build without overflow checks wraps it       *)
MulOverflows(amount, fee_bps) ==
    fee_bps > 0 /\ amount > MaxSigned \div fee_bps

WrappingMul(amount, fee_bps) ==
    LET half == 2^14
        hi == (((amount \div half) * fee_bps) % (2^(AmountBits - 14))) * half
        lo == (amount % half) * fee_bps
    IN  AsSigned((hi + lo) % (2^AmountBits))

WrappingSub(a, b) ==
    IF a - b > MaxSigned THEN a - b - 2^AmountBits
    ELSE IF a - b < -MaxSigned - 1 THEN a - b + 2^AmountBits
    ELSE a - b

FeeAmountCeil(amount, fee_bps) ==
    TruncDiv(amount * fee_bps + BPS_DENOMINATOR - 1, BPS_DENOMINATOR)

FeeAmount(amount, fee_bps) ==
    TruncDiv(WrappingMul(amount, fee_bps), BPS_DENOMINATOR)

MerchantAmount(amount, fee_amount) == WrappingSub(amount, fee_amount)

MerchantAddress(merchant_id) ==
    IF merchant_id \in 1..Len(merchants) THEN merchants[merchant_id] ELSE NoAddr

get_merchant_account(merchant_id) ==
    IF MerchantAddress(merchant_id) = NoAddr THEN NoAddr
    ELSE merchantAccount[MerchantAddress(merchant_id)]

PayableStatusOrCancelled(status) == status \in {"Pending", "Cancelled"}

PayableStatus(status) == status = "Pending"

TokenRejectedNever(token) == FALSE

TokenRejected(token) == ~is_accepted_token(token)

PaidInvoiceRestamped(invoice, payer) ==
    [invoice EXCEPT !.status = "Paid", !.payer = payer, !.date_paid = now,
                    !.date_created = now]

PaidInvoiceNoPayer(invoice, payer) ==
    [invoice EXCEPT !.status = "Paid", !.date_paid = now]

PaidInvoiceKeepsDate(invoice, payer) ==
    [invoice EXCEPT !.status = "Paid", !.payer = payer,
                    !.date_paid = invoice.date_created]

PaidInvoice(invoice, payer) ==
    [invoice EXCEPT !.status = "Paid", !.payer = payer, !.date_paid = now]

(* The two transfers of a payment, in order: whether both went through, and *)
(* the balances after them                                                  *)
PayTransfersSkipShort(b, payer, merchant_account, fee_amount, merchant_amount) ==
    LET feeOk == fee_amount > 0 => CanTransfer(b, payer, fee_amount)
        b1 == IF fee_amount > 0 THEN Transfer(b, payer, Engine, fee_amount) ELSE b
        pays == merchant_amount > 0 /\ CanTransfer(b1, payer, merchant_amount)
    IN  [ok |-> feeOk,
         bal |-> IF pays THEN Transfer(b1, payer, merchant_account, merchant_amount)
                 ELSE b1]

PayTransfers(b, payer, merchant_account, fee_amount, merchant_amount) ==
    LET feeOk == fee_amount > 0 => CanTransfer(b, payer, fee_amount)
        b1 == IF fee_amount > 0 THEN Transfer(b, payer, Engine, fee_amount) ELSE b
        netOk == merchant_amount > 0 => CanTransfer(b1, payer, merchant_amount)
        b2 == IF merchant_amount > 0
              THEN Transfer(b1, payer, merchant_account, merchant_amount)
              ELSE b1
    IN  [ok |-> feeOk /\ netOk, bal |-> b2]

(* pay_invoice as built with (overflow_checks) or without the overflow       *)
(* checks of the build profile: amount * fee_bps panics or wraps            *)
pay_invoice_build(overflow_checks, signer, payer, invoice_id) ==
    IF signer # payer THEN Panic("AuthError")
    ELSE IF ~InvoiceExists(invoice_id) THEN Panic("InvoiceNotFound")
    ELSE
    LET invoice == invoices[invoice_id]
        fee_amount == FeeAmount(invoice.amount, get_fee(invoice.token))
        merchant_amount == MerchantAmount(invoice.amount, fee_amount)
        merchant_account == get_merchant_account(invoice.merchant_id)
        paid == PayTransfers(bal[invoice.token], payer, merchant_account,
                             fee_amount, merchant_amount)
    IN  IF ~PayableStatus(invoice.status) THEN Panic("InvalidInvoiceStatus")
        ELSE IF TokenRejected(invoice.token) THEN Panic("TokenNotAccepted")
        ELSE IF overflow_checks
                /\ MulOverflows(invoice.amount, get_fee(invoice.token))
             THEN Panic("ArithmeticOverflow")
        ELSE IF merchant_account = NoAddr THEN Panic("MerchantAccountNotFound")
        ELSE IF ~paid.ok THEN Panic("TransferFailed")
        ELSE [Outcome("ok",
                      [invoices EXCEPT ![invoice_id] = PaidInvoice(invoice, payer)],
                      [bal EXCEPT ![invoice.token] = paid.bal],
                      fee_amount, merchant_amount)
              EXCEPT !.published =
                  <<InvoicePaidEvent(invoice_id, payer, invoice.amount,
                                     fee_amount, merchant_amount)>>]

(* Where the product stays in range the two builds do the same *)
pay_invoice(signer, payer, invoice_id) ==
    pay_invoice_build(TRUE, signer, payer, invoice_id)

----------------------------------------------------------------------------
(* void_invoice *)

OwnsInvoiceAnyMerchant(merchant_address, invoice) == TRUE

OwnsInvoiceById(merchant_address, invoice) ==
    invoice.id = MerchantId(merchant_address)

OwnsInvoice(merchant_address, invoice) ==
    invoice.merchant_id = MerchantId(merchant_address)

VoidableStatusAny(status) == TRUE

VoidableStatus(status) == status = "Pending"

void_invoice(signer, merchant_address, invoice_id) ==
    IF signer # merchant_address THEN Panic("AuthError")
    ELSE IF ~InvoiceExists(invoice_id) THEN Panic("InvoiceNotFound")
    ELSE IF ~is_merchant(merchant_address) THEN Panic("NotAuthorized")
    ELSE IF ~OwnsInvoice(merchant_address, invoices[invoice_id])
         THEN Panic("NotAuthorized")
    ELSE IF ~VoidableStatus(invoices[invoice_id].status)
         THEN Panic("InvalidInvoiceStatus")
    ELSE [Outcome("ok",
                  [invoices EXCEPT ![invoice_id].status = "Cancelled"],
                  bal, 0, 0)
          EXCEPT !.published =
              <<InvoiceCancelledEvent(invoice_id, merchant_address)>>]

----------------------------------------------------------------------------
(* The escrow account's refund(token, amount, recipient), called by the     *)
(* engine, which is the account's manager                                   *)

RefundProcessedEvent(token, amount, recipient) ==
    [name |-> "refund_processed", token |-> token, amount |-> amount,
     recipient |-> recipient, timestamp |-> now]

account_refund_errUnrestricted(account, token, amount, recipient) ==
    IF ~CanTransfer(bal[token], account, amount) THEN "TransferFailed" ELSE "ok"

account_refund_err(account, token, amount, recipient) ==
    IF restricted[account] THEN "AccountRestricted"
    ELSE IF ~CanTransfer(bal[token], account, amount) THEN "TransferFailed"
    ELSE "ok"

(* refund_invoice_partial *)

RefundableStatusAny(status) == TRUE

RefundableStatus(status) == status \in {"Paid", "PartiallyRefunded"}

InvalidRefundAmountNoCap(invoice, amount) == amount <= 0

InvalidRefundAmountZeroOk(invoice, amount) ==
    amount < 0 \/ invoice.amount_refunded + amount > invoice.amount

InvalidRefundAmount(invoice, amount) ==
    amount <= 0 \/ invoice.amount_refunded + amount > invoice.amount

RefundWindowExpiredNotYetPaid(date_paid) == now < date_paid

RefundWindowExpiredAtLimit(date_paid) ==
    now < date_paid \/ now - date_paid >= MAX_REFUND_DURATION

RefundWindowExpired(date_paid) ==
    now < date_paid \/ now - date_paid > MAX_REFUND_DURATION

RefundedStatusAlwaysPartial(amount_refunded, amount) == "PartiallyRefunded"

RefundedStatus(amount_refunded, amount) ==
    IF amount_refunded = amount THEN "Refunded" ELSE "PartiallyRefunded"

RefundedInvoiceOverwrite(invoice, amount) ==
    [invoice EXCEPT
        !.amount_refunded = amount,
        !.status = RefundedStatus(amount, invoice.amount)]

RefundedInvoice(invoice, amount) ==
    [invoice EXCEPT
        !.amount_refunded = @ + amount,
        !.status = RefundedStatus(invoice.amount_refunded + amount, invoice.amount)]

(* The invoice event of a refund of amount that leaves the invoice as       *)
(* refunded: the refunded event with this refund's amount when the invoice  *)
(* is now fully refunded, else the partially-refunded event with this       *)
(* refund's amount and the cumulative refunded amount                       *)
RefundEventCumulative(refunded, merchant_address, amount) ==
    IF refunded.amount_refunded = refunded.amount
    THEN InvoiceRefundedEvent(refunded.id, merchant_address,
                              refunded.amount_refunded)
    ELSE InvoicePartiallyRefundedEvent(refunded.id, merchant_address, amount,
                                       refunded.amount_refunded)

RefundEvent(refunded, merchant_address, amount) ==
    IF refunded.amount_refunded = refunded.amount
    THEN InvoiceRefundedEvent(refunded.id, merchant_address, amount)
    ELSE InvoicePartiallyRefundedEvent(refunded.id, merchant_address, amount,
                                       refunded.amount_refunded)

refund_invoice_partial(signer, invoice_id, amount) ==
    IF ~InvoiceExists(invoice_id) THEN Panic("InvoiceNotFound")
    ELSE
    LET invoice == invoices[invoice_id]
        merchant_address == MerchantAddress(invoice.merchant_id)
        merchant_account == merchantAccount[merchant_address]
        refundErr == account_refund_err(merchant_account, invoice.token,
                                        amount, invoice.payer)
    IN  IF signer # merchant_address THEN Panic("AuthError")
        ELSE IF ~RefundableStatus(invoice.status)
             THEN Panic("InvalidInvoiceStatus")
        ELSE IF InvalidRefundAmount(invoice, amount) THEN Panic("InvalidAmount")
        ELSE IF invoice.date_paid = NoTime THEN Panic("InvalidInvoiceStatus")
        ELSE IF RefundWindowExpired(invoice.date_paid)
             THEN Panic("RefundPeriodExpired")
        ELSE IF invoice.payer = NoAddr THEN Panic("InvalidInvoiceStatus")
        ELSE IF merchant_account = NoAddr THEN Panic("MerchantAccountNotFound")
        ELSE IF refundErr # "ok" THEN Panic(refundErr)
        ELSE [Outcome("ok",
                      [invoices EXCEPT ![invoice_id] = RefundedInvoice(invoice, amount)],
                      [bal EXCEPT ![invoice.token] =
                          Transfer(@, merchant_account, invoice.payer, amount)],
                      0, 0)
              EXCEPT !.events =
                  <<RefundProcessedEvent(invoice.token, amount, invoice.payer)>>,
                     !.published =
                  <<RefundEvent(RefundedInvoice(invoice, amount),
                                merchant_address, amount)>>]

(* refund_invoice *)

RefundRemainderWhole(invoice) == invoice.amount

RefundRemainder(invoice) == invoice.amount - invoice.amount_refunded

refund_invoice(signer, merchant_address, invoice_id) ==
    IF signer # merchant_address THEN Panic("AuthError")
    ELSE IF ~InvoiceExists(invoice_id) THEN Panic("InvoiceNotFound")
    ELSE IF ~is_merchant(merchant_address) THEN Panic("NotAuthorized")
    ELSE IF ~OwnsInvoice(merchant_address, invoices[invoice_id])
         THEN Panic("NotAuthorized")
    ELSE IF RefundRemainder(invoices[invoice_id]) <= 0
         THEN Panic("InvalidAmount")
    ELSE refund_invoice_partial(signer, invoice_id,
                                RefundRemainder(invoices[invoice_id]))

----------------------------------------------------------------------------
(* The shape of the state *)

TypeOK ==
    /\ admin \in Addrs \cup {NoAddr}
    /\ paused \in BOOLEAN
    /\ acceptedTokens \subseteq Tokens
    /\ feeBps \in [Tokens -> FeeRates]
    /\ Len(merchants) <= Cardinality(MerchantAddrs)
    /\ Len(invoices) <= MaxInvoices
    /\ \A i \in 1..Len(invoices) :
          /\ invoices[i].id = i
          /\ invoices[i].status \in Statuses
    /\ \A t \in Tokens, a \in Addrs : bal[t][a] >= 0
    /\ now \in TimePoints

(* The engine after initialize: two registered merchants, the first with    *)
(* its escrow account recorded, the escrow account already holding the      *)
(* proceeds of earlier business, two funded payers and no invoice yet.      *)
(* What each address holds before the first call: the escrow's 500 are the  *)
(* proceeds of earlier invoices                                             *)
OpeningBalance(a) ==
    IF a = "P1" THEN 2000
    ELSE IF a \in {"P2", "E1"} THEN 500 ELSE 0

Init ==
    /\ admin = Admin0
    /\ paused = FALSE
    /\ acceptedTokens = {}
    /\ feeBps = [t \in Tokens |-> 0]
    /\ merchants = <<"M1", "M2">>
    /\ merchantAccount = [m \in MerchantAddrs |-> IF m = "M1" THEN EscrowOf(m) ELSE NoAddr]
    /\ invoices = <<>>
    /\ bal = [t \in Tokens |-> [a \in Addrs |-> OpeningBalance(a)]]
    /\ restricted = [e \in Escrows |-> FALSE]
    /\ tracked = [e \in Escrows |-> <<>>]
    /\ accountEvents = <<>>
    /\ roles = {}
    /\ contractInfo = [admin |-> Admin0, timestamp |-> 0]
    /\ engineEvents = <<>>
    /\ now = 0
    /\ last = NoCall

----------------------------------------------------------------------------
(* Entry points of the engine.  Every state-mutating entry point first      *)
(* asserts that the contract is not paused.                                 *)

GatedNever(outcome) == outcome

Gated(outcome) == IF is_paused THEN Panic("ContractPaused") ELSE outcome

GatedErr(err) == IF is_paused THEN "ContractPaused" ELSE err

AdminErrSignedOnly(signer, adm) ==
    IF signer # adm THEN "AuthError" ELSE "ok"

AdminErr(signer, adm) ==
    IF signer # adm THEN "AuthError"
    ELSE IF admin = NoAddr THEN "NotInitialized"
    ELSE IF admin # adm THEN "NotAuthorized"
    ELSE "ok"

RegisterMerchant(signer, merchant) ==
    LET err == GatedErr(IF signer # merchant THEN "AuthError"
                        ELSE IF is_merchant(merchant) THEN "MerchantAlreadyRegistered"
                        ELSE "ok")
    IN  /\ merchants' = IF err = "ok" THEN Append(merchants, merchant) ELSE merchants
        /\ last' = Call("register_merchant", err)
        /\ UNCHANGED <<roles, contractInfo, engineEvents, tracked, accountEvents,
                       admin, paused, acceptedTokens, feeBps, merchantAccount,
                       invoices, bal, restricted, now>>

SetMerchantAccount(signer, merchant) ==
    LET err == IF signer # merchant THEN "AuthError"
               ELSE IF ~is_merchant(merchant) THEN "MerchantNotFound"
               ELSE "ok"
    IN  /\ merchantAccount' = IF err = "ok"
                              THEN [merchantAccount EXCEPT ![merchant] = EscrowOf(merchant)]
                              ELSE merchantAccount
        /\ last' = Call("set_merchant_account", err)
        /\ UNCHANGED <<roles, contractInfo, engineEvents, tracked, accountEvents,
                       admin, paused, acceptedTokens, feeBps, merchants,
                       invoices, bal, restricted, now>>

AddAcceptedToken(signer, adm, token) ==
    LET err == GatedErr(AdminErr(signer, adm))
    IN  /\ acceptedTokens' = IF err = "ok" THEN acceptedTokens \cup {token}
                             ELSE acceptedTokens
        /\ last' = Call("add_accepted_token", err)
        /\ UNCHANGED <<roles, contractInfo, engineEvents, tracked, accountEvents,
                       admin, paused, feeBps, merchants, merchantAccount,
                       invoices, bal, restricted, now>>

RemoveAcceptedToken(signer, adm, token) ==
    LET err == GatedErr(AdminErr(signer, adm))
    IN  /\ acceptedTokens' = IF err = "ok" THEN acceptedTokens \ {token}
                             ELSE acceptedTokens
        /\ last' = Call("remove_accepted_token", err)
        /\ UNCHANGED <<roles, contractInfo, engineEvents, tracked, accountEvents,
                       admin, paused, feeBps, merchants, merchantAccount,
                       invoices, bal, restricted, now>>

SetFee(signer, adm, token, bps) ==
    LET err == AdminErr(signer, adm)
    IN  /\ feeBps' = IF err = "ok" THEN [feeBps EXCEPT ![token] = bps] ELSE feeBps
        /\ last' = Call("set_fee", err)
        /\ UNCHANGED <<roles, contractInfo, engineEvents, tracked, accountEvents,
                       admin, paused, acceptedTokens, merchants, merchantAccount,
                       invoices, bal, restricted, now>>

pause_errNoFlagCheck(signer, adm) == AdminErr(signer, adm)

pause_err(signer, adm) ==
    IF AdminErr(signer, adm) # "ok" THEN AdminErr(signer, adm)
    ELSE IF is_paused THEN "ContractPaused"
    ELSE "ok"

unpause_err(signer, adm) ==
    IF AdminErr(signer, adm) # "ok" THEN AdminErr(signer, adm)
    ELSE IF ~is_paused THEN "ContractNotPaused"
    ELSE "ok"

Pause(signer, adm) ==
    LET err == pause_err(signer, adm)
    IN  /\ paused' = IF err = "ok" THEN TRUE ELSE paused
        /\ last' = Call("pause", err)
        /\ UNCHANGED <<roles, contractInfo, engineEvents, tracked, accountEvents,
                       admin, acceptedTokens, feeBps, merchants, merchantAccount,
                       invoices, bal, restricted, now>>

Unpause(signer, adm) ==
    LET err == unpause_err(signer, adm)
    IN  /\ paused' = IF err = "ok" THEN FALSE ELSE paused
        /\ last' = Call("unpause", err)
        /\ UNCHANGED <<roles, contractInfo, engineEvents, tracked, accountEvents,
                       admin, acceptedTokens, feeBps, merchants, merchantAccount,
                       invoices, bal, restricted, now>>

Apply(op, outcome) ==
    /\ invoices' = outcome.invoices
    /\ bal' = outcome.bal
    /\ accountEvents' = outcome.events
    /\ engineEvents' = outcome.published
    /\ last' = Call(op, outcome.err)
    /\ UNCHANGED <<roles, contractInfo, tracked, admin, paused, acceptedTokens, feeBps, merchants,
                   merchantAccount, restricted, now>>

(* create_invoice while fewer than limit invoices are stored *)
CreateInvoiceUpTo(limit, signer, merchant_address, amount, token) ==
    LET outcome == Gated(create_invoice(signer, merchant_address, "d", amount, token))
    IN  /\ outcome.err = "ok" => Len(invoices) < limit
        /\ Apply("create_invoice", outcome)

CreateInvoice(signer, merchant_address, amount, token) ==
    CreateInvoiceUpTo(MaxInvoices, signer, merchant_address, amount, token)

PayInvoice(signer, payer, invoice_id) ==
    \E overflow_checks \in BOOLEAN :
        Apply("pay_invoice",
              Gated(pay_invoice_build(overflow_checks, signer, payer, invoice_id)))

VoidInvoice(signer, merchant_address, invoice_id) ==
    Apply("void_invoice",
          Gated(void_invoice(signer, merchant_address, invoice_id)))

RefundInvoice(signer, merchant_address, invoice_id) ==
    Apply("refund_invoice",
          Gated(refund_invoice(signer, merchant_address, invoice_id)))

RefundInvoicePartial(signer, invoice_id, amount) ==
    Apply("refund_invoice_partial",
          Gated(refund_invoice_partial(signer, invoice_id, amount)))

----------------------------------------------------------------------------
(* initialize(admin): write-once *)

NoInfo == [admin |-> NoAddr, timestamp |-> NoTime]

HasAdminNever(stored) == FALSE

HasAdmin(stored) == stored # NoAddr

ContractInfo(adm) == [admin |-> adm, timestamp |-> now]

(* The outcome of initialize: the error ("ok" when none), and the admin and *)
(* ContractInfo stored after it                                             *)
initialize(adm) ==
    IF HasAdmin(admin)
    THEN [err |-> "AlreadyInitialized", admin |-> admin,
          contractInfo |-> contractInfo]
    ELSE [err |-> "ok", admin |-> adm, contractInfo |-> ContractInfo(adm)]

Initialize(adm) ==
    LET outcome == initialize(adm)
    IN  /\ admin' = outcome.admin
        /\ contractInfo' = outcome.contractInfo
        /\ last' = Call("initialize", outcome.err)
        /\ UNCHANGED <<roles, engineEvents, tracked, accountEvents, paused,
                       acceptedTokens, feeBps, merchants, merchantAccount,
                       invoices, bal, restricted, now>>

get_admin == admin

----------------------------------------------------------------------------
(* Access control: grant_role(admin, user, role),                           *)
(* revoke_role(admin, user, role), has_role(user, role)                     *)

RoleKinds == {"Admin", "Manager", "Operator"}
RoleUsers == {Admin0, "M1", "M2"}

RoleGrantedEvent(user, role) ==
    [name |-> "role_granted_event", user |-> user, role |-> role, timestamp |-> now]

RoleRevokedEvent(user, role) ==
    [name |-> "role_revoked_event", user |-> user, role |-> role, timestamp |-> now]

(* has_role on the grants rs and the stored admin adm *)
HasRoleGrantedOnly(rs, adm, user, role) == <<user, role>> \in rs

HasRole(rs, adm, user, role) == user = adm \/ <<user, role>> \in rs

has_role(user, role) == HasRole(roles, admin, user, role)

(* Who may grant and revoke: the caller, authenticated, is the stored admin *)
RoleAdminErrAnyCaller(signer, adm) ==
    IF signer # adm THEN "AuthError" ELSE "ok"

RoleAdminErr(signer, adm) == AdminErr(signer, adm)

GrantedRolesAllKinds(rs, user, role) == rs \cup {<<user, r>> : r \in RoleKinds}

GrantedRoles(rs, user, role) == rs \cup {<<user, role>>}

RevokedRoles(rs, user, role) == rs \ {<<user, role>>}

(* The outcome of grant_role and revoke_role: the error ("ok" when none),   *)
(* the grants left and the events published                                 *)
RoleOutcome(err, rs, published) ==
    [err |-> err, roles |-> rs, published |-> published]

grant_role(signer, adm, user, role) ==
    IF RoleAdminErr(signer, adm) # "ok"
    THEN RoleOutcome(RoleAdminErr(signer, adm), roles, <<>>)
    ELSE RoleOutcome("ok", GrantedRoles(roles, user, role),
                     <<RoleGrantedEvent(user, role)>>)

revoke_role(signer, adm, user, role) ==
    IF RoleAdminErr(signer, adm) # "ok"
    THEN RoleOutcome(RoleAdminErr(signer, adm), roles, <<>>)
    ELSE RoleOutcome("ok", RevokedRoles(roles, user, role),
                     <<RoleRevokedEvent(user, role)>>)

ApplyRole(op, outcome) ==
    /\ roles' = outcome.roles
    /\ engineEvents' = outcome.published
    /\ last' = Call(op, outcome.err)
    /\ UNCHANGED <<admin, contractInfo, tracked, accountEvents, paused,
                   acceptedTokens, feeBps, merchants, merchantAccount,
                   invoices, bal, restricted, now>>

GrantRole(signer, adm, user, role) ==
    ApplyRole("grant_role", grant_role(signer, adm, user, role))

RevokeRole(signer, adm, user, role) ==
    ApplyRole("revoke_role", revoke_role(signer, adm, user, role))

----------------------------------------------------------------------------
(* The merchant's escrow account (contracts/account).  The account of       *)
(* merchant M1 is E1; its manager is the engine.                            *)

AccountTokens == {"T", "U"}
AccountSigners == {Engine, "M1", Outsider}
AccountRecipients == {"P1", "M1"}
AccountAmounts == {275, 400, 999}

AccountMerchant(account) == "M1"

AccountManager(account) == Engine

is_restricted_account(account) == restricted[account]

has_token(account, token) ==
    \E k \in 1..Len(tracked[account]) : tracked[account][k] = token

get_balance(account, token) == bal[token][account]

get_balances(account) ==
    [k \in 1..Len(tracked[account]) |->
        [token |-> tracked[account][k],
         balance |-> get_balance(account, tracked[account][k])]]

TokenAddedEvent(token) ==
    [name |-> "token_added", token |-> token, timestamp |-> now]

WithdrawalToEvent(token, recipient, amount) ==
    [name |-> "withdrawal_to", token |-> token, recipient |-> recipient,
     amount |-> amount, timestamp |-> now]

AccountRestrictedEvent(status) ==
    [name |-> "account_restricted", status |-> status, timestamp |-> now]

(* The outcome of an account entry point: its error ("ok" when none), the   *)
(* ledger, flag and tracked tokens it leaves, and the events it publishes   *)
AccountOutcome(err, b, restr, trk, events) ==
    [err |-> err, bal |-> b, restricted |-> restr, tracked |-> trk,
     events |-> events]

AccountPanic(err) == AccountOutcome(err, bal, restricted, tracked, <<>>)

(* refund(token, amount, recipient) *)

RefundAuthorizedAnyone(signer, account) == TRUE

RefundAuthorized(signer, account) == signer = AccountManager(account)

account_refund(signer, account, token, amount, recipient) ==
    IF ~RefundAuthorized(signer, account) THEN AccountPanic("AuthError")
    ELSE IF account_refund_err(account, token, amount, recipient) # "ok"
         THEN AccountPanic(account_refund_err(account, token, amount, recipient))
    ELSE AccountOutcome("ok",
             [bal EXCEPT ![token] = Transfer(@, account, recipient, amount)],
             restricted, tracked,
             <<RefundProcessedEvent(token, amount, recipient)>>)

(* withdraw_to(token, amount, recipient) *)

WithdrawAuthorizedOrManager(signer, account) ==
    signer \in {AccountMerchant(account), AccountManager(account)}

WithdrawAuthorized(signer, account) == signer = AccountMerchant(account)

(* The transfer of a withdrawal: whether it went through, and the balances  *)
(* of the token after it                                                    *)
WithdrawTransferClamped(b, account, recipient, amount) ==
    LET paid == IF b[account] >= amount THEN amount ELSE b[account]
    IN  [ok |-> amount >= 0, bal |-> Transfer(b, account, recipient, paid)]

WithdrawTransfer(b, account, recipient, amount) ==
    [ok |-> CanTransfer(b, account, amount),
     bal |-> Transfer(b, account, recipient, amount)]

withdraw_to(signer, account, token, amount, recipient) ==
    LET moved == WithdrawTransfer(bal[token], account, recipient, amount)
    IN  IF ~WithdrawAuthorized(signer, account) THEN AccountPanic("AuthError")
        ELSE IF is_restricted_account(account) THEN AccountPanic("AccountRestricted")
        ELSE IF ~moved.ok THEN AccountPanic("TransferFailed")
        ELSE AccountOutcome("ok", [bal EXCEPT ![token] = moved.bal],
                            restricted, tracked,
                            <<WithdrawalToEvent(token, recipient, amount)>>)

(* add_token(token) *)

TrackTokenAgain(trk, token) == Append(trk, token)

TrackToken(trk, token) ==
    IF \E k \in 1..Len(trk) : trk[k] = token THEN trk ELSE Append(trk, token)

add_token(signer, account, token) ==
    IF signer # AccountManager(account) THEN AccountPanic("AuthError")
    ELSE AccountOutcome("ok", bal, restricted,
             [tracked EXCEPT ![account] = TrackToken(@, token)],
             IF has_token(account, token) THEN <<>>
             ELSE <<TokenAddedEvent(token)>>)

(* restrict_account(flag) *)

RestrictedFlagToggled(restr, flag) == ~restr

RestrictedFlag(restr, flag) == flag

restrict_account(signer, account, flag) ==
    IF signer # AccountManager(account) THEN AccountPanic("AuthError")
    ELSE AccountOutcome("ok", bal,
             [restricted EXCEPT ![account] = RestrictedFlag(@, flag)],
             tracked, <<AccountRestrictedEvent(flag)>>)

(* Entry points of the escrow account *)

ApplyAccount(op, outcome) ==
    /\ bal' = outcome.bal
    /\ restricted' = outcome.restricted
    /\ tracked' = outcome.tracked
    /\ accountEvents' = outcome.events
    /\ last' = Call(op, outcome.err)
    /\ UNCHANGED <<roles, contractInfo, engineEvents, admin, paused,
                   acceptedTokens, feeBps, merchants, merchantAccount,
                   invoices, now>>

AccountRefund(signer, account, token, amount, recipient) ==
    ApplyAccount("refund", account_refund(signer, account, token, amount, recipient))

WithdrawTo(signer, account, token, amount, recipient) ==
    ApplyAccount("withdraw_to", withdraw_to(signer, account, token, amount, recipient))

AddToken(signer, account, token) ==
    ApplyAccount("add_token", add_token(signer, account, token))

RestrictAccount(signer, account, flag) ==
    ApplyAccount("restrict_account", restrict_account(signer, account, flag))

(* get_invoices, a read: the filter it was called with and what it returned *)
GetInvoices(filter) ==
    /\ last' = [op |-> "get_invoices", err |-> "ok", filter |-> filter,
                ret |-> get_invoices(filter)]
    /\ UNCHANGED <<admin, paused, acceptedTokens, feeBps, merchants,
                   merchantAccount, invoices, bal, restricted, tracked,
                   accountEvents, roles, contractInfo, engineEvents, now>>

(* The ledger clock advances *)
Tick(t) ==
    /\ t > now
    /\ now' = t
    /\ last' = Call("tick", "ok")
    /\ UNCHANGED <<roles, contractInfo, engineEvents, tracked, accountEvents,
                   admin, paused, acceptedTokens, feeBps, merchants,
                   merchantAccount, invoices, bal, restricted>>

Next ==
    \/ \E a \in AdminArgs, t \in Tokens : \E s \in SignersFor(a) :
          AddAcceptedToken(s, a, t)
    \/ \E a \in AdminArgs, t \in Tokens : \E s \in SignersFor(a) :
          RemoveAcceptedToken(s, a, t)
    \/ \E a \in AdminArgs, t \in Tokens, f \in FeeRates : \E s \in SignersFor(a) :
          SetFee(s, a, t, f)
    \/ \E m \in MerchantArgs, a \in CreateAmounts, t \in Tokens :
          \E s \in SignersFor(m) : CreateInvoice(s, m, a, t)
    \/ \E p \in Payers, i \in InvoiceIds : \E s \in SignersFor(p) :
          PayInvoice(s, p, i)
    \/ \E m \in MerchantArgs, i \in InvoiceIds : \E s \in SignersFor(m) :
          VoidInvoice(s, m, i)
    \/ \E m \in MerchantArgs, i \in InvoiceIds : \E s \in SignersFor(m) :
          RefundInvoice(s, m, i)
    \/ \E s \in MerchantArgs, i \in InvoiceIds, a \in RefundAmounts :
          RefundInvoicePartial(s, i, a)
    \/ \E t \in TimePoints : Tick(t)

Spec == Init /\ [][Next]_vars

----------------------------------------------------------------------------
(* Properties of the invoice lifecycle *)

StoredIds == 1..Len(invoices)

Unchanged(outcome) == outcome.invoices = invoices /\ outcome.bal = bal

(* What a merchant call is made with: the owning merchant, signed by itself *)
OwnerOf(id) == MerchantAddress(invoices[id].merchant_id)

(* C1: every stored invoice has amount > 0 and                              *)
(* 0 <= amount_refunded <= amount, in every reachable state.                *)
C1_RefundedWithinAmount ==
    \A i \in StoredIds :
        /\ invoices[i].amount > 0
        /\ 0 <= invoices[i].amount_refunded
        /\ invoices[i].amount_refunded <= invoices[i].amount

C1_Witness ==
    \E i \in StoredIds :
        /\ invoices[i].amount = 1000
        /\ invoices[i].amount_refunded = 725
        /\ last = Call("refund_invoice_partial", "InvalidAmount")

(* C2: an invoice has status Refunded exactly when its amount_refunded      *)
(* equals its amount.                                                       *)
C2_RefundedIffFullyRefunded ==
    \A i \in StoredIds :
        invoices[i].status = "Refunded"
            <=> invoices[i].amount_refunded = invoices[i].amount

C2_Witness ==
    \E i \in StoredIds :
        /\ invoices[i].status = "Refunded"
        /\ invoices[i].amount_refunded = 1000
        /\ last = Call("refund_invoice_partial", "ok")

(* C3: a step changes an invoice's status only along Pending->Paid,         *)
(* Pending->Cancelled, Paid->PartiallyRefunded, Paid->Refunded,             *)
(* PartiallyRefunded->Refunded (PartiallyRefunded may stay so), and no step *)
(* changes the status or amount_refunded of a Cancelled or Refunded         *)
(* invoice; no invoice is ever removed.                                     *)
StatusMoves ==
    {<<"Pending", "Paid">>, <<"Pending", "Cancelled">>,
     <<"Paid", "PartiallyRefunded">>, <<"Paid", "Refunded">>,
     <<"PartiallyRefunded", "PartiallyRefunded">>,
     <<"PartiallyRefunded", "Refunded">>}

C3_Step ==
    /\ Len(invoices') >= Len(invoices)
    /\ \A i \in StoredIds :
          /\ invoices'[i].status # invoices[i].status
                => <<invoices[i].status, invoices'[i].status>> \in StatusMoves
          /\ invoices'[i].amount_refunded # invoices[i].amount_refunded
                => <<invoices[i].status, invoices'[i].status>> \in StatusMoves
          /\ invoices[i].status \in {"Cancelled", "Refunded"}
                => /\ invoices'[i].status = invoices[i].status
                   /\ invoices'[i].amount_refunded = invoices[i].amount_refunded

C3_StatusTransitions == [][C3_Step]_vars

C3_Witness ==
    \E i \in StoredIds :
        /\ invoices[i].status = "Refunded"
        /\ last = Call("void_invoice", "InvalidInvoiceStatus")

(* C4: a successful pay_invoice at a fee rate within 0..10000 bps moves     *)
(* fee = floor(amount * fee_bps / 10000) from the payer to the engine and   *)
(* amount - fee from the payer to the merchant's escrow account, and        *)
(* nothing else; fee + merchant amount = amount.                            *)
C4_FeeSplit ==
    \A p \in Payers, i \in StoredIds :
        LET r == pay_invoice(p, p, i)
            inv == invoices[i]
            bps == get_fee(inv.token)
            fee == (inv.amount * bps) \div 10000
            net == inv.amount - fee
            esc == get_merchant_account(inv.merchant_id)
        IN  (r.err = "ok" /\ bps \in 0..10000) =>
              /\ r.fee = fee /\ r.net = net
              /\ r.fee + r.net = inv.amount
              /\ r.bal[inv.token][Engine] = bal[inv.token][Engine] + fee
              /\ r.bal[inv.token][esc] = bal[inv.token][esc] + net
              /\ r.bal[inv.token][p] = bal[inv.token][p] - inv.amount
              /\ \A a \in Addrs \ {p, Engine, esc} :
                    r.bal[inv.token][a] = bal[inv.token][a]

C4_Witness ==
    /\ last = Call("pay_invoice", "ok")
    /\ \E i \in StoredIds : invoices[i].amount = 1000 /\ invoices[i].status = "Paid"
    /\ bal["T"][Engine] = 50
    /\ bal["T"]["E1"] = 1450
    /\ bal["T"]["P1"] = 1000

C6_TokenNotAccepted ==
    \A p \in Payers, i \in StoredIds :
        LET r == pay_invoice(p, p, i)
        IN  (invoices[i].status = "Pending" /\ invoices[i].token \notin acceptedTokens)
                => r.err = "TokenNotAccepted" /\ Unchanged(r)

C6_Witness ==
    /\ last = Call("pay_invoice", "TokenNotAccepted")
    /\ acceptedTokens = {}
    /\ \E i \in StoredIds : invoices[i].status = "Pending"

(* C7: pay_invoice is all or nothing: a call that fails changes neither the *)
(* invoice nor any balance, and a call by a payer whose balance is below    *)
(* the invoice amount fails (with the transfer's failure when the invoice   *)
(* is Pending, its token accepted and the escrow account recorded).         *)
C7_PayAllOrNothing ==
    \A p \in Payers, i \in StoredIds :
        LET r == pay_invoice(p, p, i)
            inv == invoices[i]
        IN  /\ r.err # "ok" => Unchanged(r)
            /\ bal[inv.token][p] < inv.amount => r.err # "ok"
            /\ ( /\ bal[inv.token][p] < inv.amount
                 /\ inv.status = "Pending"
                 /\ inv.token \in acceptedTokens
                 /\ get_merchant_account(inv.merchant_id) # NoAddr )
                    => r.err = "TransferFailed"

C7_Witness ==
    /\ last = Call("pay_invoice", "TransferFailed")
    /\ feeBps["T"] = 500
    /\ \E i \in StoredIds :
          /\ invoices[i].amount = 1000
          /\ invoices[i].status = "Pending"
          /\ invoices[i].payer = NoAddr
          /\ invoices[i].date_paid = NoTime
    /\ bal["T"]["P2"] = 500 /\ bal["T"]["P1"] = 2000
    /\ bal["T"][Engine] = 0 /\ bal["T"]["E1"] = 500

(* C8: void_invoice by the owning merchant sets a Pending invoice to        *)
(* Cancelled and changes nothing else; on an invoice that is not Pending it *)
(* fails with InvalidInvoiceStatus and changes nothing.                     *)
C8_VoidByOwner ==
    \A i \in StoredIds :
        LET r == void_invoice(OwnerOf(i), OwnerOf(i), i)
        IN  /\ invoices[i].status = "Pending"
                => /\ r.err = "ok"
                   /\ r.invoices = [invoices EXCEPT ![i].status = "Cancelled"]
                   /\ r.bal = bal
            /\ invoices[i].status # "Pending"
                => r.err = "InvalidInvoiceStatus" /\ Unchanged(r)

C8_Witness ==
    /\ last = Call("void_invoice", "InvalidInvoiceStatus")
    /\ \E i \in StoredIds : invoices[i].status = "Cancelled"

(* C9: void_invoice by a caller that is not the registered merchant owning  *)
(* the invoice fails with NotAuthorized and changes nothing; on an id that  *)
(* is not stored it fails with InvoiceNotFound, whoever calls.              *)
C9_VoidNotOwner ==
    \A m \in MerchantArgs, i \in InvoiceIds :
        LET r == void_invoice(m, m, i)
        IN  /\ (i \in StoredIds /\ m # OwnerOf(i))
                => r.err = "NotAuthorized" /\ Unchanged(r)
            /\ i \notin StoredIds => r.err = "InvoiceNotFound" /\ Unchanged(r)

C9_Witness ==
    /\ last = Call("void_invoice", "NotAuthorized")
    /\ \E i \in StoredIds : invoices[i].status = "Pending"

(* C10: a refund by the owning merchant of a Paid or PartiallyRefunded      *)
(* invoice, of a valid amount that the unrestricted escrow account holds,   *)
(* succeeds when now - date_paid <= 604800 and fails with                   *)
(* RefundPeriodExpired, changing nothing, when now - date_paid > 604800.    *)
RefundOtherwiseValid(i, amount) ==
    /\ invoices[i].status \in {"Paid", "PartiallyRefunded"}
    /\ amount > 0
    /\ invoices[i].amount_refunded + amount <= invoices[i].amount
    /\ get_merchant_account(invoices[i].merchant_id) # NoAddr
    /\ ~restricted[get_merchant_account(invoices[i].merchant_id)]
    /\ bal[invoices[i].token][get_merchant_account(invoices[i].merchant_id)] >= amount

RefundWindowRule(i, r) ==
    /\ now - invoices[i].date_paid <= 604800 => r.err = "ok"
    /\ now - invoices[i].date_paid > 604800
          => r.err = "RefundPeriodExpired" /\ Unchanged(r)

C10_RefundWindow ==
    \A i \in StoredIds :
        /\ \A a \in RefundAmounts :
              RefundOtherwiseValid(i, a)
                => RefundWindowRule(i, refund_invoice_partial(OwnerOf(i), i, a))
        /\ RefundOtherwiseValid(i, invoices[i].amount - invoices[i].amount_refunded)
              => RefundWindowRule(i, refund_invoice(OwnerOf(i), OwnerOf(i), i))

C10_Witness ==
    /\ last = Call("refund_invoice", "ok")
    /\ now = 604800
    /\ \E i \in StoredIds :
          invoices[i].date_paid = 0 /\ invoices[i].status = "Refunded"

C10_WitnessExpired ==
    /\ last = Call("refund_invoice", "RefundPeriodExpired")
    /\ now = 604801
    /\ \E i \in StoredIds :
          invoices[i].date_paid = 0 /\ invoices[i].status = "Paid"

----------------------------------------------------------------------------
(* Properties of the refunds *)

(* The amounts a partial refund is tried with, beyond those the steps use *)
RefundTries == RefundAmounts \cup {-1, 10, 1000, 1001}

(* C11 (as amended): refund_invoice_partial by the owning merchant on an    *)
(* invoice that is Pending, Cancelled or Refunded fails with                *)
(* InvalidInvoiceStatus; refund_invoice by the owning merchant fails with   *)
(* InvalidInvoiceStatus on a Pending or Cancelled invoice and with          *)
(* InvalidAmount on a Refunded one; a failing call changes nothing.         *)
C11_RefundStatusErrors ==
    \A i \in StoredIds :
        LET full == refund_invoice(OwnerOf(i), OwnerOf(i), i)
        IN  /\ invoices[i].status \in {"Pending", "Cancelled", "Refunded"}
                => \A a \in RefundTries :
                      LET r == refund_invoice_partial(OwnerOf(i), i, a)
                      IN  r.err = "InvalidInvoiceStatus" /\ Unchanged(r)
            /\ invoices[i].status \in {"Pending", "Cancelled"}
                => full.err = "InvalidInvoiceStatus" /\ Unchanged(full)
            /\ invoices[i].status = "Refunded"
                => full.err = "InvalidAmount" /\ Unchanged(full)

C11_Witness ==
    /\ last = Call("refund_invoice", "InvalidAmount")
    /\ \E i \in StoredIds : invoices[i].status = "Refunded"

(* C11 as stated: refund_invoice and refund_invoice_partial by the owning   *)
(* merchant on an invoice that is not Paid or PartiallyRefunded fail with   *)
(* InvalidInvoiceStatus.                                                    *)
C11_AsStated ==
    \A i \in StoredIds :
        invoices[i].status \in {"Pending", "Cancelled", "Refunded"}
            => /\ refund_invoice(OwnerOf(i), OwnerOf(i), i).err = "InvalidInvoiceStatus"
               /\ \A a \in RefundTries :
                     refund_invoice_partial(OwnerOf(i), i, a).err = "InvalidInvoiceStatus"

(* C12: refund_invoice_partial by the owning merchant on a Paid or          *)
(* PartiallyRefunded invoice fails with InvalidAmount when the amount is    *)
(* <= 0 or amount_refunded + amount exceeds the invoice amount, and then    *)
(* moves no tokens and leaves the invoice as it was.                        *)
C12_RefundInvalidAmount ==
    \A i \in StoredIds, a \in RefundTries :
        LET r == refund_invoice_partial(OwnerOf(i), i, a)
        IN  ( /\ invoices[i].status \in {"Paid", "PartiallyRefunded"}
              /\ (a <= 0 \/ invoices[i].amount_refunded + a > invoices[i].amount) )
                => r.err = "InvalidAmount" /\ Unchanged(r)

C12_Witness ==
    /\ last = Call("refund_invoice_partial", "InvalidAmount")
    /\ \E i \in StoredIds :
          invoices[i].status = "Paid" /\ invoices[i].amount_refunded = 0

(* C13: a successful refund_invoice_partial of amount a adds exactly a to   *)
(* amount_refunded, moves exactly a of the invoice's token from the         *)
(* merchant's escrow account to the recorded payer and nothing else, and    *)
(* leaves the status Refunded when the new amount_refunded equals amount    *)
(* and PartiallyRefunded otherwise; no other field of the invoice changes.  *)
RefundEffect(i, a, r) ==
    LET inv == invoices[i]
        esc == get_merchant_account(inv.merchant_id)
        refunded == inv.amount_refunded + a
    IN  /\ r.invoices = [invoices EXCEPT ![i] =
              [inv EXCEPT !.amount_refunded = refunded,
                          !.status = IF refunded = inv.amount THEN "Refunded"
                                     ELSE "PartiallyRefunded"]]
        /\ r.bal[inv.token][inv.payer] = bal[inv.token][inv.payer] + a
        /\ r.bal[inv.token][esc] = bal[inv.token][esc] - a
        /\ \A x \in Addrs \ {inv.payer, esc} : r.bal[inv.token][x] = bal[inv.token][x]

C13_PartialRefundEffect ==
    \A i \in StoredIds, a \in RefundTries :
        LET r == refund_invoice_partial(OwnerOf(i), i, a)
        IN  r.err = "ok" => RefundEffect(i, a, r)

C13_Witness ==
    /\ last = Call("refund_invoice_partial", "ok")
    /\ \E i \in StoredIds :
          /\ invoices[i].amount = 1000
          /\ invoices[i].amount_refunded = 275
          /\ invoices[i].status = "PartiallyRefunded"
          /\ invoices[i].payer = "P1"
    /\ feeBps["T"] = 0
    /\ bal["T"]["P1"] = 1275
    /\ bal["T"]["E1"] = 1225

(* C14: a refund_invoice by the owning merchant within the refund window,   *)
(* the escrow account holding the remainder, succeeds and refunds exactly   *)
(* amount - amount_refunded: the status becomes Refunded, amount_refunded   *)
(* equals amount, the payer receives the remainder and the escrow account   *)
(* pays it.                                                                 *)
C14_FullRefundEffect ==
    \A i \in StoredIds :
        LET r == refund_invoice(OwnerOf(i), OwnerOf(i), i)
            rem == invoices[i].amount - invoices[i].amount_refunded
        IN  /\ ( /\ RefundOtherwiseValid(i, rem)
                 /\ now - invoices[i].date_paid <= 604800 ) => r.err = "ok"
            /\ r.err = "ok"
                => /\ RefundEffect(i, rem, r)
                   /\ r.invoices[i].status = "Refunded"
                   /\ r.invoices[i].amount_refunded = invoices[i].amount

C14_Witness ==
    /\ last = Call("refund_invoice", "ok")
    /\ \E i \in StoredIds :
          /\ invoices[i].amount = 1000
          /\ invoices[i].amount_refunded = 1000
          /\ invoices[i].status = "Refunded"
          /\ invoices[i].payer = "P1"
    /\ feeBps["T"] = 0
    /\ bal["T"]["P1"] = 2000
    /\ bal["T"]["E1"] = 500

(* C15: refund_invoice by a registered merchant that does not own the       *)
(* invoice, or by an address that is not registered, fails with             *)
(* NotAuthorized; no tokens move and the invoice is unchanged.              *)
C15_RefundNotOwner ==
    \A m \in MerchantArgs, i \in StoredIds :
        LET r == refund_invoice(m, m, i)
        IN  m # OwnerOf(i) => r.err = "NotAuthorized" /\ Unchanged(r)

C15_Witness ==
    /\ last = Call("refund_invoice", "NotAuthorized")
    /\ \E i \in StoredIds : invoices[i].status = "Paid"

----------------------------------------------------------------------------
(* The escrow account on its own: the account E1 after initialize, holding  *)
(* 1000 of token T and 100 of token U, no token tracked yet.                *)

InitAccount ==
    /\ admin = Admin0
    /\ paused = FALSE
    /\ acceptedTokens = {}
    /\ feeBps = [t \in Tokens |-> 0]
    /\ merchants = <<"M1", "M2">>
    /\ merchantAccount = [m \in MerchantAddrs |-> IF m = "M1" THEN EscrowOf(m) ELSE NoAddr]
    /\ invoices = <<>>
    /\ bal = [t \in AccountTokens |-> [a \in Addrs |->
                 IF a = "E1" THEN (IF t = "T" THEN 1000 ELSE 100) ELSE 0]]
    /\ restricted = [e \in Escrows |-> FALSE]
    /\ tracked = [e \in Escrows |-> <<>>]
    /\ accountEvents = <<>>
    /\ roles = {}
    /\ contractInfo = [admin |-> Admin0, timestamp |-> 0]
    /\ engineEvents = <<>>
    /\ now = 0
    /\ last = NoCall

NextAccount ==
    \/ \E s \in AccountSigners, e \in Escrows, t \in AccountTokens,
          a \in AccountAmounts, r \in AccountRecipients :
          AccountRefund(s, e, t, a, r)
    \/ \E s \in AccountSigners, e \in Escrows, t \in AccountTokens,
          a \in AccountAmounts, r \in AccountRecipients :
          WithdrawTo(s, e, t, a, r)
    \/ \E s \in AccountSigners, e \in Escrows, t \in AccountTokens :
          AddToken(s, e, t)
    \/ \E s \in AccountSigners, e \in Escrows, f \in BOOLEAN :
          RestrictAccount(s, e, f)

SpecAccount == InitAccount /\ [][NextAccount]_vars

----------------------------------------------------------------------------
(* Properties of the escrow account *)

AccountUnchanged(r) ==
    /\ r.bal = bal
    /\ r.restricted = restricted
    /\ r.tracked = tracked
    /\ r.events = <<>>

(* An amount moved from the account to the recipient, and nothing else *)
AccountMoved(r, account, token, amount, recipient) ==
    /\ r.bal[token][account] = bal[token][account] - amount
    /\ r.bal[token][recipient] = bal[token][recipient] + amount
    /\ \A t \in AccountTokens, a \in Addrs :
          (t # token \/ a \notin {account, recipient}) => r.bal[t][a] = bal[t][a]

(* C16: the account's refund moves funds only when it is authorized by the  *)
(* account's manager and the account is not restricted: authorized by the   *)
(* manager while restricted it fails with the account's restricted error,   *)
(* authorized by anybody else it fails, and in both cases no tokens move.   *)
C16_RefundManagerOnly ==
    \A s \in AccountSigners, e \in Escrows, t \in AccountTokens,
       a \in AccountAmounts, p \in AccountRecipients :
        LET r == account_refund(s, e, t, a, p)
        IN  /\ r.bal # bal => (s = AccountManager(e) /\ ~restricted[e])
            /\ (s = AccountManager(e) /\ restricted[e])
                  => r.err = "AccountRestricted" /\ AccountUnchanged(r)
            /\ s # AccountManager(e) => r.err # "ok" /\ AccountUnchanged(r)
            /\ r.err = "ok" => AccountMoved(r, e, t, a, p)

C16_Witness ==
    /\ last = Call("refund", "AccountRestricted")
    /\ restricted["E1"]
    /\ bal["T"]["E1"] = 725
    /\ bal["T"]["P1"] = 275

(* C17: the account's withdraw_to moves funds only when it is authorized by *)
(* the merchant and the account is not restricted: authorized by the        *)
(* manager or anybody else it fails, by the merchant while restricted it    *)
(* fails, and by the merchant while unrestricted with enough balance it     *)
(* moves exactly amount from the account to the recipient and publishes     *)
(* exactly one withdrawal event.                                           *)
C17_WithdrawMerchantOnly ==
    \A s \in AccountSigners, e \in Escrows, t \in AccountTokens,
       a \in AccountAmounts, p \in AccountRecipients :
        LET r == withdraw_to(s, e, t, a, p)
        IN  /\ r.bal # bal => (s = AccountMerchant(e) /\ ~restricted[e])
            /\ s # AccountMerchant(e) => r.err # "ok" /\ AccountUnchanged(r)
            /\ (s = AccountMerchant(e) /\ restricted[e])
                  => r.err # "ok" /\ AccountUnchanged(r)
            /\ (s = AccountMerchant(e) /\ ~restricted[e] /\ bal[t][e] >= a)
                  => /\ r.err = "ok"
                     /\ AccountMoved(r, e, t, a, p)
                     /\ r.events = <<WithdrawalToEvent(t, p, a)>>
                     /\ r.restricted = restricted /\ r.tracked = tracked

C17_Witness ==
    /\ last = Call("withdraw_to", "ok")
    /\ Len(accountEvents) = 1
    /\ accountEvents[1].name = "withdrawal_to"
    /\ accountEvents[1].amount = 400
    /\ bal["T"]["E1"] = 600
    /\ bal["T"]["P1"] = 400

(* C18: a withdraw_to of more than the account holds fails as a whole: the  *)
(* account's and the recipient's balances, the restricted flag and the      *)
(* tracked tokens are unchanged and no withdrawal event is published.       *)
C18_WithdrawAllOrNothing ==
    \A s \in AccountSigners, e \in Escrows, t \in AccountTokens,
       a \in AccountAmounts, p \in AccountRecipients :
        LET r == withdraw_to(s, e, t, a, p)
        IN  /\ a > bal[t][e] => r.err # "ok" /\ AccountUnchanged(r)
            /\ (a > bal[t][e] /\ s = AccountMerchant(e) /\ ~restricted[e])
                  => r.err = "TransferFailed"

C18_Witness ==
    /\ last = Call("withdraw_to", "TransferFailed")
    /\ accountEvents = <<>>
    /\ ~restricted["E1"]
    /\ bal["U"]["E1"] = 100
    /\ bal["U"]["P1"] = 0 /\ bal["U"]["M1"] = 0
    /\ has_token("E1", "U")

(* C19: add_token is idempotent: adding a tracked token changes nothing and *)
(* publishes no event, adding another one appends it and publishes one      *)
(* event; the tracked tokens hold no token twice, get_balances has exactly  *)
(* one entry per tracked token, and no step removes a tracked token.        *)
C19_AddOutcome ==
    \A e \in Escrows, t \in AccountTokens :
        LET r == add_token(AccountManager(e), e, t)
        IN  /\ r.err = "ok"
            /\ has_token(e, t) => AccountUnchanged(r)
            /\ ~has_token(e, t)
                  => /\ r.tracked[e] = Append(tracked[e], t)
                     /\ r.events = <<TokenAddedEvent(t)>>
                     /\ r.bal = bal /\ r.restricted = restricted

C19_State ==
    \A e \in Escrows :
        /\ \A j, k \in 1..Len(tracked[e]) : tracked[e][j] = tracked[e][k] => j = k
        /\ Len(get_balances(e)) = Cardinality({t \in AccountTokens : has_token(e, t)})
        /\ \A t \in AccountTokens :
              has_token(e, t) =>
                 Cardinality({k \in 1..Len(get_balances(e)) :
                                 get_balances(e)[k].token = t}) = 1
        /\ \A k \in 1..Len(get_balances(e)) :
              get_balances(e)[k].balance = bal[get_balances(e)[k].token][e]

C19_Step ==
    \A e \in Escrows, t \in AccountTokens :
        has_token(e, t) => \E k \in 1..Len(tracked'[e]) : tracked'[e][k] = t

C19_AddTokenIdempotent ==
    /\ [](C19_AddOutcome /\ C19_State)
    /\ [][C19_Step]_vars

C19_Witness ==
    /\ last = Call("add_token", "ok")
    /\ accountEvents = <<>>
    /\ tracked["E1"] = <<"U", "T">>

(* C20: is_restricted_account is false after initialize; a restrict_account *)
(* authorized by the manager succeeds and leaves the flag equal to the flag *)
(* passed, also when that is already its value; one not authorized by the   *)
(* manager fails and leaves the flag as it was; and the flag changes in no  *)
(* other step.                                                              *)
C20_RestrictOutcome ==
    /\ last = NoCall => \A e \in Escrows : ~is_restricted_account(e)
    /\ \A s \in AccountSigners, e \in Escrows, f \in BOOLEAN :
          LET r == restrict_account(s, e, f)
          IN  /\ s = AccountManager(e)
                    => /\ r.err = "ok"
                       /\ r.restricted[e] = f
                       /\ r.bal = bal /\ r.tracked = tracked
              /\ s # AccountManager(e) => r.err # "ok" /\ AccountUnchanged(r)

C20_Step ==
    /\ restricted' # restricted => last' = Call("restrict_account", "ok")
    /\ last' = Call("restrict_account", "ok")
          => \A e \in Escrows :
                is_restricted_account(e)' = accountEvents'[1].status

C20_RestrictedFlag ==
    /\ []C20_RestrictOutcome
    /\ [][C20_Step]_vars

C20_Witness ==
    /\ last = Call("restrict_account", "AuthError")
    /\ is_restricted_account("E1")

----------------------------------------------------------------------------
(* The engine from deployment: initialize, the pause switch and the roles   *)

InitAdmin ==
    /\ admin = NoAddr
    /\ contractInfo = NoInfo
    /\ paused = FALSE
    /\ acceptedTokens = {}
    /\ feeBps = [t \in Tokens |-> 0]
    /\ merchants = <<>>
    /\ merchantAccount = [m \in MerchantAddrs |-> NoAddr]
    /\ invoices = <<>>
    /\ bal = [t \in Tokens |-> [a \in Addrs |-> 0]]
    /\ restricted = [e \in Escrows |-> FALSE]
    /\ tracked = [e \in Escrows |-> <<>>]
    /\ accountEvents = <<>>
    /\ roles = {}
    /\ engineEvents = <<>>
    /\ now = 0
    /\ last = NoCall

NextAdmin ==
    \/ \E a \in AdminArgs : Initialize(a)
    \/ \E a \in AdminArgs : \E s \in SignersFor(a) : Pause(s, a)
    \/ \E a \in AdminArgs : \E s \in SignersFor(a) : Unpause(s, a)
    \/ \E a \in AdminArgs, u \in RoleUsers, r \in RoleKinds :
          \E s \in SignersFor(a) : GrantRole(s, a, u, r)
    \/ \E a \in AdminArgs, u \in RoleUsers, r \in RoleKinds :
          \E s \in SignersFor(a) : RevokeRole(s, a, u, r)

SpecAdmin == InitAdmin /\ [][NextAdmin]_vars

----------------------------------------------------------------------------
(* Properties of the access control *)

(* A caller that authenticates as itself *)
RoleCallers == RoleUsers \cup {Outsider}

(* C21: once the engine is initialized, grant_role and revoke_role succeed  *)
(* only when the caller argument is the stored admin; called by any other   *)
(* identity they fail with NotAuthorized and leave every role assignment    *)
(* as it was.                                                               *)
C21_GrantRevokeAdminOnly ==
    admin # NoAddr =>
    \A a \in RoleCallers, u \in RoleUsers, r \in RoleKinds :
        LET g == grant_role(a, a, u, r)
            v == revoke_role(a, a, u, r)
        IN  /\ g.err = "ok" => a = admin
            /\ v.err = "ok" => a = admin
            /\ a = admin => g.err = "ok" /\ v.err = "ok"
            /\ a # admin => /\ g.err = "NotAuthorized" /\ g.roles = roles
                            /\ v.err = "NotAuthorized" /\ v.roles = roles

C21_Witness ==
    /\ last = Call("grant_role", "NotAuthorized")
    /\ admin = Admin0
    /\ roles = {<<"M2", "Manager">>}
    /\ engineEvents = <<>>

(* C22: in every state of the initialized engine has_role(admin, r) is true *)
(* for each of the roles Admin, Manager and Operator, with no grant made    *)
(* to the admin, and it stays true after a revoke_role of the admin's own   *)
(* roles.                                                                   *)
C22_AdminSupremacy ==
    admin # NoAddr =>
    \A r \in RoleKinds :
        /\ has_role(admin, r)
        /\ \A own \in RoleKinds :
              LET v == revoke_role(admin, admin, admin, own)
              IN  v.err = "ok" /\ HasRole(v.roles, admin, admin, r)

C22_Witness ==
    /\ last = Call("revoke_role", "ok")
    /\ engineEvents = <<RoleRevokedEvent(Admin0, "Manager")>>
    /\ admin = Admin0
    /\ \A r \in RoleKinds : <<Admin0, r>> \notin roles /\ has_role(Admin0, r)

(* The (user, role) pairs of users that are not the admin *)
OtherPairs(user, role) ==
    {p \in (RoleUsers \ {admin}) \X RoleKinds : p # <<user, role>>}

SameRoles(rs, pairs) ==
    \A p \in pairs : HasRole(rs, admin, p[1], p[2]) = has_role(p[1], p[2])

(* A grant or revoke by the admin always succeeds, also a grant of a role   *)
(* already granted and a revoke of a role not granted; it sets has_role of  *)
(* its own pair and of no other pair                                        *)
C23_Outcome ==
    admin # NoAddr =>
    \A u \in RoleUsers \ {admin}, r \in RoleKinds :
        LET g == grant_role(admin, admin, u, r)
            v == revoke_role(admin, admin, u, r)
        IN  /\ g.err = "ok" /\ HasRole(g.roles, admin, u, r)
            /\ SameRoles(g.roles, OtherPairs(u, r))
            /\ v.err = "ok" /\ ~HasRole(v.roles, admin, u, r)
            /\ SameRoles(v.roles, OtherPairs(u, r))

(* No role is granted before the first grant *)
C23_Start == admin = NoAddr => roles = {}

(* has_role of a pair changes only in a successful grant or revoke of that  *)
(* pair, which the published event names                                    *)
C23_Step ==
    LET granted == last'.op = "grant_role" /\ last'.err = "ok"
        revoked == last'.op = "revoke_role" /\ last'.err = "ok"
        e == engineEvents'[1]
    IN  /\ granted => roles' = roles \cup {<<e.user, e.role>>}
        /\ revoked => roles' = roles \ {<<e.user, e.role>>}
        /\ ~(granted \/ revoked) => roles' = roles

(* C23: for a user that is not the admin, has_role(user, role) is true      *)
(* exactly when the most recent admin grant_role or revoke_role for that    *)
(* pair was a grant (false when there was none); a grant of a role already  *)
(* granted and a revoke of a role never granted succeed; a grant or revoke  *)
(* never changes has_role of another role or another user.                  *)
C23_LastGrantDecides ==
    /\ [](C23_Outcome /\ C23_Start)
    /\ [][C23_Step]_vars

C23_Witness ==
    /\ last = Call("revoke_role", "ok")
    /\ engineEvents = <<RoleRevokedEvent("M1", "Manager")>>
    /\ admin = Admin0
    /\ roles = {<<"M1", "Operator">>, <<"M2", "Manager">>}
    /\ ~has_role("M1", "Manager")
    /\ has_role("M1", "Operator") /\ has_role("M2", "Manager")

----------------------------------------------------------------------------
(* Properties of the pause switch and of initialize *)

(* What pause and unpause answer to the admin *)
C24_Outcome ==
    admin # NoAddr =>
    /\ pause_err(admin, admin) = IF is_paused THEN "ContractPaused" ELSE "ok"
    /\ unpause_err(admin, admin) = IF is_paused THEN "ok" ELSE "ContractNotPaused"

(* What pause and unpause do to the flag, and that nothing else writes it *)
C24_Step ==
    LET ok == last'.err = "ok"
    IN  /\ (last'.op = "pause" /\ ok) => ~paused /\ paused'
        /\ (last'.op = "unpause" /\ ok) => paused /\ ~paused'
        /\ ~(last'.op \in {"pause", "unpause"} /\ ok) => paused' = paused

(* C24: pause called by the admin succeeds only when the contract is not    *)
(* paused and sets is_paused to true; unpause called by the admin succeeds  *)
(* only when it is paused and sets is_paused to false; pause while paused   *)
(* fails with ContractPaused and unpause while not paused fails with        *)
(* ContractNotPaused, the flag unchanged; is_paused is false before any     *)
(* pause.                                                                   *)
C24_PauseUnpause ==
    /\ ~is_paused
    /\ []C24_Outcome
    /\ [][C24_Step]_vars

C24_Witness ==
    /\ last = Call("pause", "ContractPaused")
    /\ is_paused
    /\ admin = Admin0

(* What initialize answers and stores *)
C26_Outcome ==
    \A a \in AdminArgs :
        LET r == initialize(a)
        IN  /\ admin = NoAddr =>
                /\ r.err = "ok" /\ r.admin = a
                /\ r.contractInfo = [admin |-> a, timestamp |-> now]
            /\ admin # NoAddr =>
                /\ r.err = "AlreadyInitialized"
                /\ r.admin = admin /\ r.contractInfo = contractInfo

(* The admin and ContractInfo are stored together *)
C26_State ==
    IF admin = NoAddr THEN contractInfo = NoInfo
    ELSE contractInfo.admin = admin /\ contractInfo.timestamp # NoTime

(* Once stored, the admin and ContractInfo never change, and only a         *)
(* successful initialize stores them                                        *)
C26_Step ==
    /\ admin # NoAddr => admin' = admin /\ contractInfo' = contractInfo
    /\ admin' # admin => last' = Call("initialize", "ok")

(* C26: the engine's initialize is write-once: the first call stores the    *)
(* admin and ContractInfo, every later call fails with AlreadyInitialized,  *)
(* and the stored admin never changes afterwards.                           *)
C26_InitializeOnce ==
    /\ [](C26_Outcome /\ C26_State)
    /\ [][C26_Step]_vars

C26_Witness ==
    /\ last = Call("initialize", "AlreadyInitialized")
    /\ admin = "M1"
    /\ contractInfo = [admin |-> "M1", timestamp |-> 0]

----------------------------------------------------------------------------
(* The engine with its pause switch: the invoice lifecycle of one invoice,  *)
(* every call authenticated, and the admin pausing and unpausing            *)

NextPaused ==
    \/ Pause(Admin0, Admin0)
    \/ Unpause(Admin0, Admin0)
    \/ \E t \in Tokens : AddAcceptedToken(Admin0, Admin0, t)
    \/ \E t \in Tokens : RemoveAcceptedToken(Admin0, Admin0, t)
    \/ \E m \in MerchantArgs, a \in CreateAmounts, t \in Tokens :
          CreateInvoice(m, m, a, t)
    \/ \E i \in InvoiceIds : PayInvoice("P1", "P1", i)
    \/ \E m \in MerchantArgs, i \in InvoiceIds : VoidInvoice(m, m, i)
    \/ \E m \in MerchantArgs, i \in InvoiceIds : RefundInvoice(m, m, i)
    \/ \E m \in MerchantArgs, i \in InvoiceIds, a \in RefundAmounts :
          RefundInvoicePartial(m, i, a)
    \/ \E t \in TimePoints : Tick(t)

SpecPaused == Init /\ [][NextPaused]_vars

(* The entry points that assert that the contract is not paused *)
PausedOps ==
    {"create_invoice", "pay_invoice", "void_invoice", "refund_invoice",
     "refund_invoice_partial", "add_accepted_token", "remove_accepted_token"}

(* A call of one of them while paused fails with ContractPaused, writes     *)
(* nothing and publishes nothing                                            *)
C25_Step ==
    (is_paused /\ last'.op \in PausedOps) =>
        /\ last'.err = "ContractPaused"
        /\ UNCHANGED <<admin, paused, acceptedTokens, feeBps, merchants,
                       merchantAccount, invoices, bal, restricted, tracked,
                       roles, contractInfo, now>>
        /\ engineEvents' \in {<<>>, engineEvents}
        /\ accountEvents' \in {<<>>, accountEvents}

(* The read-only entry points answer while paused as they do otherwise *)
C25_ReadOnly ==
    is_paused =>
        /\ \A i \in InvoiceIds :
              IF i \in StoredIds
              THEN get_invoice(i) = [err |-> "ok", invoice |-> invoices[i]]
              ELSE get_invoice(i).err = "InvoiceNotFound"
        /\ \A m \in MerchantArgs : is_merchant(m) <=> m \in MerchantAddrs
        /\ \A t \in Tokens : is_accepted_token(t) <=> t \in acceptedTokens

(* C25: while the contract is paused, create_invoice, pay_invoice,          *)
(* void_invoice, refund_invoice, refund_invoice_partial,                    *)
(* add_accepted_token and remove_accepted_token fail with ContractPaused    *)
(* and change no state; the read-only entry points are not affected.        *)
C25_PausedRejects ==
    /\ []C25_ReadOnly
    /\ [][C25_Step]_vars

C25_Witness ==
    /\ last = Call("pay_invoice", "ContractPaused")
    /\ is_paused
    /\ is_accepted_token("T")
    /\ Len(invoices) = 1 /\ invoices[1].status = "Pending"
    /\ invoices[1].amount = 1000
    /\ bal["T"]["P1"] = 2000

----------------------------------------------------------------------------
(* The engine issuing invoices: merchants register, in either order, and    *)
(* create up to MaxCreated invoices                                         *)

InitCreate ==
    /\ admin = Admin0
    /\ contractInfo = [admin |-> Admin0, timestamp |-> 0]
    /\ paused = FALSE
    /\ acceptedTokens = {}
    /\ feeBps = [t \in Tokens |-> 0]
    /\ merchants = <<>>
    /\ merchantAccount = [m \in MerchantAddrs |-> NoAddr]
    /\ invoices = <<>>
    /\ bal = [t \in Tokens |-> [a \in Addrs |-> 0]]
    /\ restricted = [e \in Escrows |-> FALSE]
    /\ tracked = [e \in Escrows |-> <<>>]
    /\ accountEvents = <<>>
    /\ roles = {}
    /\ engineEvents = <<>>
    /\ now = 0
    /\ last = NoCall

NextCreate ==
    \/ \E m \in MerchantAddrs : \E s \in SignersFor(m) : RegisterMerchant(s, m)
    \/ \E m \in MerchantArgs, a \in CreateAmounts, t \in Tokens :
          \E s \in SignersFor(m) : CreateInvoiceUpTo(MaxCreated, s, m, a, t)

SpecCreate == InitCreate /\ [][NextCreate]_vars

----------------------------------------------------------------------------
(* Properties of create_invoice *)

InvoiceCount == Len(invoices)

(* What create_invoice returns and stores *)
C27_Outcome ==
    \A m \in MerchantArgs, a \in CreateAmounts, t \in Tokens :
        LET r == create_invoice(m, m, "d", a, t)
        IN  IF r.err = "ok"
            THEN /\ r.ret = InvoiceCount + 1
                 /\ Len(r.invoices) = InvoiceCount + 1
                 /\ r.invoices[r.ret].id = r.ret
                 /\ \A i \in 1..InvoiceCount : r.invoices[i] = invoices[i]
            ELSE r.invoices = invoices /\ r.ret = 0

(* get_invoice finds exactly the ids 1..InvoiceCount, each under its own id *)
C27_State ==
    \A i \in 0..(MaxCreated + 1) :
        IF i \in 1..InvoiceCount
        THEN get_invoice(i).err = "ok" /\ get_invoice(i).invoice.id = i
        ELSE get_invoice(i).err = "InvoiceNotFound"

(* The successful create_invoice calls are numbered in order; no other call *)
(* stores an invoice or consumes an id                                      *)
C27_Step ==
    IF last' = Call("create_invoice", "ok")
    THEN /\ Len(invoices') = InvoiceCount + 1
         /\ engineEvents'[1].invoice_id = InvoiceCount + 1
    ELSE Len(invoices') = InvoiceCount

(* C27: invoice ids come from one counter shared by all merchants: the k-th *)
(* successful create_invoice returns id k, a failed create_invoice consumes *)
(* no id, InvoiceCount equals the number of stored invoices, and            *)
(* get_invoice(i) succeeds with invoice.id = i for every i in               *)
(* 1..InvoiceCount and fails with InvoiceNotFound for every other i.        *)
C27_InvoiceIds ==
    /\ [](C27_Outcome /\ C27_State)
    /\ [][C27_Step]_vars

C27_Witness ==
    /\ last = Call("create_invoice", "ok")
    /\ InvoiceCount = 3
    /\ engineEvents[1].invoice_id = 3 /\ engineEvents[1].merchant = "M1"
    /\ invoices[1].merchant_id = MerchantId("M1")
    /\ invoices[2].merchant_id = MerchantId("M2")
    /\ invoices[3].merchant_id = MerchantId("M1")

Descriptions == {"d", "e"}

(* C28: create_invoice fails with InvalidAmount when amount <= 0 and with   *)
(* NotAuthorized when the merchant is not registered, and stores nothing;   *)
(* when it succeeds the stored invoice has the description, amount and      *)
(* token given, the caller's merchant_id, status Pending, amount_refunded   *)
(* 0, and neither payer nor date_paid.                                      *)
C28_CreateInvoice ==
    \A m \in MerchantArgs, d \in Descriptions, a \in CreateAmounts \cup {-1},
       t \in Tokens :
        LET r == create_invoice(m, m, d, a, t)
            stored == r.invoices[Len(r.invoices)]
        IN  /\ a <= 0 => r.err = "InvalidAmount"
            /\ (a > 0 /\ ~is_merchant(m)) => r.err = "NotAuthorized"
            /\ (a > 0 /\ is_merchant(m)) => r.err = "ok"
            /\ r.err # "ok" => r.invoices = invoices /\ r.bal = bal
            /\ r.err = "ok" =>
                  /\ Len(r.invoices) = Len(invoices) + 1
                  /\ stored.description = d /\ stored.amount = a
                  /\ stored.token = t
                  /\ stored.merchant_id = MerchantId(m)
                  /\ stored.status = "Pending"
                  /\ stored.amount_refunded = 0
                  /\ stored.payer = NoAddr /\ stored.date_paid = NoTime

C28_Witness ==
    /\ last = Call("create_invoice", "ok")
    /\ merchants = <<"M2", "M1">>
    /\ InvoiceCount = 2
    /\ invoices[2] = [id |-> 2, description |-> "d", amount |-> 10,
                      token |-> "T", status |-> "Pending", merchant_id |-> 1,
                      payer |-> NoAddr, date_created |-> 0,
                      date_paid |-> NoTime, amount_refunded |-> 0]
    /\ invoices[1].merchant_id = 2

----------------------------------------------------------------------------
(* The privileged calls of the engine and of the escrow account, made by    *)
(* the identity they require and by others, around one invoice              *)

NextPrivileged ==
    \/ \E t \in Tokens : AddAcceptedToken(Admin0, Admin0, t)
    \/ \E m \in MerchantAddrs, t \in Tokens : CreateInvoice(m, m, 1000, t)
    \/ \E i \in StoredIds : PayInvoice("P1", "P1", i)
    \/ \E a \in AdminArgs : \E s \in SignersFor(a) : Pause(s, a)
    \/ \E a \in AdminArgs : \E s \in SignersFor(a) : Unpause(s, a)
    \/ \E a \in AdminArgs : \E s \in SignersFor(a) : GrantRole(s, a, "M2", "Manager")
    \/ \E a \in AdminArgs : \E s \in SignersFor(a) : RevokeRole(s, a, "M2", "Manager")
    \/ \E m \in MerchantArgs, i \in InvoiceIds : \E s \in SignersFor(m) :
          VoidInvoice(s, m, i)
    \/ \E m \in MerchantArgs, i \in InvoiceIds : \E s \in SignersFor(m) :
          RefundInvoice(s, m, i)
    \/ \E s \in AccountSigners, e \in Escrows, t \in Tokens :
          WithdrawTo(s, e, t, 400, "M1")
    \/ \E s \in AccountSigners, e \in Escrows, t \in Tokens :
          AccountRefund(s, e, t, 275, "P1")
    \/ \E s \in AccountSigners, e \in Escrows, t \in Tokens : AddToken(s, e, t)
    \/ \E s \in AccountSigners, e \in Escrows, f \in BOOLEAN :
          RestrictAccount(s, e, f)

SpecPrivileged == Init /\ [][NextPrivileged]_vars

----------------------------------------------------------------------------
(* Properties of the privileged calls *)

(* The error of a call the required identity has not authorized: the host's *)
(* authorization error when the address the call requires has not signed,   *)
(* NotAuthorized when the caller signed for itself but is not the identity  *)
(* the call is reserved to                                                  *)
Denied(signed) == IF signed THEN "NotAuthorized" ELSE "AuthError"

(* pause, unpause, grant_role, revoke_role: reserved to the stored admin *)
C29_Admin(denied(_)) ==
    \A a \in RoleCallers, s \in RoleCallers :
        (s # a \/ a # admin) =>
            /\ pause_err(s, a) = denied(s = a)
            /\ unpause_err(s, a) = denied(s = a)
            /\ \A u \in RoleUsers, r \in RoleKinds :
                  /\ grant_role(s, a, u, r).err = denied(s = a)
                  /\ grant_role(s, a, u, r).roles = roles
                  /\ revoke_role(s, a, u, r).err = denied(s = a)
                  /\ revoke_role(s, a, u, r).roles = roles

(* void_invoice, refund_invoice of a stored invoice, while the contract is  *)
(* not paused: reserved to the merchant that owns the invoice               *)
C29_Owner(denied(_)) ==
    ~is_paused =>
    \A i \in StoredIds, m \in MerchantArgs : \A s \in SignersFor(m) :
        (s # m \/ m # OwnerOf(i)) =>
            LET v == Gated(void_invoice(s, m, i))
                f == Gated(refund_invoice(s, m, i))
            IN  /\ v.err = denied(s = m) /\ Unchanged(v)
                /\ f.err = denied(s = m) /\ Unchanged(f)

(* The escrow account: withdraw_to is reserved to its merchant, refund,     *)
(* add_token and restrict_account to its manager, whose signature the call  *)
(* requires                                                                 *)
C29_Account(denied(_)) ==
    \A e \in Escrows, s \in AccountSigners, t \in Tokens,
       a \in AccountAmounts, rcp \in AccountRecipients :
        /\ s # AccountMerchant(e) =>
              LET w == withdraw_to(s, e, t, a, rcp)
              IN  w.err = denied(FALSE) /\ AccountUnchanged(w)
        /\ s # AccountManager(e) =>
              LET f == account_refund(s, e, t, a, rcp)
                  k == add_token(s, e, t)
              IN  /\ f.err = denied(FALSE) /\ AccountUnchanged(f)
                  /\ k.err = denied(FALSE) /\ AccountUnchanged(k)
                  /\ \A flag \in BOOLEAN :
                        LET x == restrict_account(s, e, flag)
                        IN  x.err = denied(FALSE) /\ AccountUnchanged(x)

(* A call that fails for want of authorization writes nothing *)
C29_Step ==
    last'.err \in {"AuthError", "NotAuthorized"} =>
        UNCHANGED <<admin, paused, acceptedTokens, feeBps, merchants,
                    merchantAccount, invoices, bal, restricted, tracked,
                    roles, contractInfo, now>>

(* C29: a privileged call (pause, unpause, grant_role, revoke_role,         *)
(* void_invoice, refund_invoice, and the escrow's withdraw_to, refund,      *)
(* add_token, restrict_account) that the required identity has not          *)
(* authorized fails and leaves all engine and escrow state unchanged; it    *)
(* fails with the host's authorization error when the address the call      *)
(* requires has not signed, and with NotAuthorized when the caller signed   *)
(* for itself but is not the stored admin or the owning merchant.           *)
C29_Unauthorized ==
    /\ [](C29_Admin(Denied) /\ C29_Owner(Denied) /\ C29_Account(Denied))
    /\ [][C29_Step]_vars

C29_Witness ==
    /\ last = Call("restrict_account", "AuthError")
    /\ ~restricted["E1"]
    /\ is_paused
    /\ roles = {<<"M2", "Manager">>}
    /\ Len(invoices) = 1 /\ invoices[1].status = "Paid"
    /\ bal["T"]["E1"] = 1500

AlwaysNotAuthorized(signed) == "NotAuthorized"

(* C29 as stated: every such call fails with NotAuthorized *)
C29_AsStated ==
    /\ C29_Admin(AlwaysNotAuthorized)
    /\ C29_Owner(AlwaysNotAuthorized)
    /\ C29_Account(AlwaysNotAuthorized)

----------------------------------------------------------------------------
(* Properties of the refund events *)

(* The refunds the owning merchant can ask for on invoice i: a partial      *)
(* refund of each amount, and the refund of the remainder                   *)
OwnerRefunds(i) ==
    {[amount |-> a,
      outcome |-> refund_invoice_partial(OwnerOf(i), i, a)] : a \in RefundAmounts}
    \cup {[amount |-> RefundRemainder(invoices[i]),
           outcome |-> refund_invoice(OwnerOf(i), OwnerOf(i), i)]}

(* The one invoice event of a successful refund: refunded when the invoice  *)
(* is now fully refunded, partially-refunded otherwise                      *)
RefundEventKind(i, r) ==
    /\ Len(r.outcome.published) = 1
    /\ r.outcome.published[1].invoice_id = i
    /\ r.outcome.published[1].merchant = OwnerOf(i)
    /\ r.outcome.published[1].name =
          IF r.outcome.invoices[i].amount_refunded = invoices[i].amount
          THEN "invoice_refunded" ELSE "invoice_partially_refunded"

(* The cumulative refunded amount an event carries: the refunded event has  *)
(* one amount field, the partially-refunded event names the total           *)
CarriedTotal(e) ==
    IF e.name = "invoice_refunded" THEN e.amount ELSE e.total_refunded

(* C30: every successful refund emits exactly one invoice event, refunded   *)
(* if the invoice is now fully refunded and partially-refunded otherwise;   *)
(* the event carries the amount of this refund, and the partially-refunded  *)
(* event also the invoice's new cumulative refunded amount; a failed refund *)
(* emits none.                                                              *)
C30_RefundEvent ==
    \A i \in StoredIds : \A r \in OwnerRefunds(i) :
        IF r.outcome.err = "ok"
        THEN LET e == r.outcome.published[1]
             IN  /\ RefundEventKind(i, r)
                 /\ e.amount = r.amount
                 /\ e.name = "invoice_partially_refunded" =>
                       e.total_refunded = r.outcome.invoices[i].amount_refunded
        ELSE r.outcome.published = <<>>

C30_Witness ==
    /\ last = Call("refund_invoice_partial", "ok")
    /\ Len(invoices) = 1
    /\ invoices[1].status = "Refunded" /\ invoices[1].amount_refunded = 1000
    /\ engineEvents = <<InvoiceRefundedEvent(1, "M1", 725)>>
    /\ accountEvents = <<RefundProcessedEvent("T", 725, invoices[1].payer)>>

(* C30 as stated: the event of every successful refund carries the          *)
(* invoice's new cumulative refunded amount                                 *)
C30_AsStated ==
    \A i \in StoredIds : \A r \in OwnerRefunds(i) :
        r.outcome.err = "ok" =>
            /\ RefundEventKind(i, r)
            /\ CarriedTotal(r.outcome.published[1]) =
                  r.outcome.invoices[i].amount_refunded

----------------------------------------------------------------------------
(* Properties of a refund whose escrow call fails *)

(* The escrow account of invoice i would refuse a refund of amount: none is *)
(* recorded for the merchant, it is restricted, or it holds less            *)
EscrowRefuses(i, amount) ==
    LET esc == get_merchant_account(invoices[i].merchant_id)
    IN  \/ esc = NoAddr
        \/ restricted[esc]
        \/ bal[invoices[i].token][esc] < amount

(* A refund that is valid up to its call into the escrow account *)
RefundReachesEscrow(i, amount) ==
    /\ invoices[i].status \in {"Paid", "PartiallyRefunded"}
    /\ amount > 0
    /\ invoices[i].amount_refunded + amount <= invoices[i].amount
    /\ now - invoices[i].date_paid <= MAX_REFUND_DURATION

EscrowErrors == {"MerchantAccountNotFound", "AccountRestricted", "TransferFailed"}

(* C31: a refund_invoice or refund_invoice_partial whose call into the      *)
(* merchant's escrow account fails (the escrow is restricted, holds less    *)
(* than the amount, or none is recorded for the merchant) fails as a whole: *)
(* the invoice's status and amount_refunded, the payer's and the escrow's   *)
(* balance are unchanged and no refund event is recorded.                   *)
C31_EscrowFailureAborts ==
    \A i \in StoredIds : \A r \in OwnerRefunds(i) :
        EscrowRefuses(i, r.amount) =>
            /\ r.outcome.err # "ok"
            /\ RefundReachesEscrow(i, r.amount) => r.outcome.err \in EscrowErrors
            /\ Unchanged(r.outcome)
            /\ r.outcome.events = <<>> /\ r.outcome.published = <<>>

C31_Witness ==
    /\ last = Call("refund_invoice", "AccountRestricted")
    /\ restricted["E1"]
    /\ ~is_paused
    /\ Len(invoices) = 1
    /\ invoices[1].status = "Paid" /\ invoices[1].amount_refunded = 0
    /\ bal["T"]["E1"] = 1500 /\ bal["T"]["P1"] = 1000
    /\ engineEvents = <<>> /\ accountEvents = <<>>

----------------------------------------------------------------------------
(* The engine listing invoices: two merchants create up to MaxListed        *)
(* invoices, which are paid or voided, and get_invoices is called           *)

ListedAmounts == {10, 1000}

(* The filters get_invoices is called with *)
CalledFilters ==
    {InvoiceFilter(st, m, lo, hi) :
        st \in {None, Some(1)},
        m \in {None, Some("M1")},
        lo \in {None, Some(11), Some(MaxSigned + 1)},
        hi \in {None, Some(MaxUnsigned)}}

NextFilter ==
    \/ \E t \in Tokens : AddAcceptedToken(Admin0, Admin0, t)
    \/ \E m \in MerchantAddrs, a \in ListedAmounts, t \in Tokens :
          CreateInvoiceUpTo(MaxListed, m, m, a, t)
    \/ \E i \in StoredIds : PayInvoice("P1", "P1", i)
    \/ \E i \in StoredIds : VoidInvoice(OwnerOf(i), OwnerOf(i), i)
    \/ \E f \in CalledFilters : GetInvoices(f)

SpecFilter == Init /\ [][NextFilter]_vars

----------------------------------------------------------------------------
(* Properties of get_invoices *)

(* The values of the filter fields: absent, the status codes in use and one *)
(* that is no status, registered and unregistered merchants, and bounds     *)
(* around the amounts in use and at the ends of the signed and unsigned     *)
(* ranges                                                                   *)
FilterStatuses == {None} \cup {Some(c) : c \in {0, 1, 2, 9}}
FilterMerchants == {None} \cup {Some(m) : m \in MerchantArgs}
FilterBounds ==
    {None} \cup {Some(v) : v \in {0, 11, 1000, MaxSigned, MaxSigned + 1,
                                  MaxUnsigned}}

AllFilters ==
    {InvoiceFilter(st, m, lo, hi) :
        st \in FilterStatuses, m \in FilterMerchants,
        lo \in FilterBounds, hi \in FilterBounds}

(* The predicates of a filter, as stated *)
Satisfies(invoice, filter) ==
    /\ filter.status # None => StatusCode(invoice.status) = filter.status[1]
    /\ filter.merchant # None =>
          /\ is_merchant(filter.merchant[1])
          /\ invoice.merchant_id = MerchantId(filter.merchant[1])
    /\ filter.min_amount # None => invoice.amount >= filter.min_amount[1]
    /\ filter.max_amount # None => invoice.amount <= filter.max_amount[1]

(* The stored invoices that satisfy the filter, in ascending id order *)
Satisfying(filter) ==
    LET Keeps(invoice) == Satisfies(invoice, filter)
    IN  SelectSeq(invoices, Keeps)

(* C32: get_invoices(filter) returns, in ascending id order, exactly the    *)
(* stored invoices that satisfy every predicate present in the filter       *)
(* (status code, merchant, amount >= min_amount, amount <= max_amount); an  *)
(* absent predicate matches every invoice, the empty filter returns all     *)
(* invoices, an unregistered merchant address matches none.                 *)
C32_AsStated ==
    \A f \in AllFilters : get_invoices(f) = Satisfying(f)

(* The same for the filters whose amount bounds are within the signed range *)
C32_WithinSignedRange ==
    \A f \in AllFilters :
        ((f.min_amount = None \/ f.min_amount[1] <= MaxSigned)
         /\ (f.max_amount = None \/ f.max_amount[1] <= MaxSigned))
            => get_invoices(f) = Satisfying(f)

C32_Witness ==
    /\ last.op = "get_invoices"
    /\ last.filter = InvoiceFilter(Some(1), Some("M1"), Some(11), Some(MaxUnsigned))
    /\ Len(invoices) = 2
    /\ invoices[1].merchant_id = 1 /\ invoices[1].status = "Paid"
    /\ invoices[1].amount = 1000
    /\ last.ret = <<>>

(* The ids of the invoices a call returns *)
ReturnedIds(returned) == {returned[k].id : k \in 1..Len(returned)}

AmountBounds == {b[1] : b \in FilterBounds \ {None}}

(* C39: for every min_amount and max_amount of the unsigned range,          *)
(* get_invoices returns exactly the invoices with                           *)
(* min_amount <= amount <= max_amount: a min_amount above the largest       *)
(* signed value matches no invoice and a max_amount above it matches every  *)
(* invoice.                                                                 *)
C39_AsStated ==
    \A lo \in AmountBounds, hi \in AmountBounds :
        /\ ReturnedIds(get_invoices(InvoiceFilter(None, None, Some(lo), Some(hi))))
              = {i \in StoredIds : lo <= invoices[i].amount /\ invoices[i].amount <= hi}
        /\ lo > MaxSigned =>
              get_invoices(InvoiceFilter(None, None, Some(lo), None)) = <<>>
        /\ hi > MaxSigned =>
              get_invoices(InvoiceFilter(None, None, None, Some(hi))) = invoices

(* A min_amount above the largest signed value has matched an invoice *)
C39_Witness ==
    /\ last.op = "get_invoices"
    /\ last.filter = InvoiceFilter(None, None, Some(MaxSigned + 1), None)
    /\ Len(invoices) = 2
    /\ last.ret = invoices

----------------------------------------------------------------------------
(* Refunds against what the payment deposited *)

(* The invoices that have been paid *)
PaidIds == {i \in StoredIds :
               invoices[i].status \in {"Paid", "PartiallyRefunded", "Refunded"}}

(* While one invoice only has been paid, the ledger tells the fee the       *)
(* engine kept and the sum the escrow received for it: the engine holds     *)
(* nothing but fees and the escrow's balance moves only by payments in and  *)
(* refunds out                                                              *)
FeeKept == bal["T"][Engine] - OpeningBalance(Engine)

Deposited(i) ==
    IF PaidIds = {i}
    THEN IF invoices[i].amount - FeeKept > 0 THEN invoices[i].amount - FeeKept
         ELSE 0
    ELSE 0

RefundedOut(i) == OpeningBalance("E1") + Deposited(i) - bal["T"]["E1"]

(* C33 as stated: the refunds of an invoice out of the escrow never exceed  *)
(* the merchant amount (amount - fee) its payment deposited, so the escrow  *)
(* never falls below what it held from other invoices (stated where the     *)
(* invoice is the only one paid, so that the ledger shows its deposit).     *)
C33_AsStated ==
    \A i \in StoredIds :
        PaidIds = {i} =>
            /\ RefundedOut(i) <= Deposited(i)
            /\ bal["T"]["E1"] >= OpeningBalance("E1")

C33_State ==
    \A i \in StoredIds :
        /\ invoices[i].amount_refunded <= invoices[i].amount
        /\ PaidIds = {i} =>
              /\ RefundedOut(i) = invoices[i].amount_refunded
              /\ bal["T"]["E1"] >= OpeningBalance("E1")
                                      - (invoices[i].amount - Deposited(i))

(* What leaves an escrow in a step is what one invoice's amount_refunded    *)
(* grows by, within its amount, and the other way round *)
C33_Step ==
    /\ \A e \in Escrows, t \in Tokens :
          bal'[t][e] < bal[t][e] =>
              \E i \in StoredIds :
                  /\ last'.op \in {"refund_invoice", "refund_invoice_partial"}
                  /\ invoices[i].token = t
                  /\ get_merchant_account(invoices[i].merchant_id) = e
                  /\ invoices'[i].amount_refunded
                        = invoices[i].amount_refunded + (bal[t][e] - bal'[t][e])
                  /\ invoices'[i].amount_refunded <= invoices[i].amount
                  /\ \A j \in StoredIds \ {i} : invoices'[j] = invoices[j]
    /\ \A i \in StoredIds :
          invoices'[i].amount_refunded # invoices[i].amount_refunded =>
              LET e == get_merchant_account(invoices[i].merchant_id)
                  t == invoices[i].token
              IN  bal[t][e] - bal'[t][e]
                     = invoices'[i].amount_refunded - invoices[i].amount_refunded

(* C33: the refunds of an invoice out of the escrow are exactly its         *)
(* amount_refunded and never exceed the invoice amount; the part above the  *)
(* deposited amount - fee comes out of the escrow's other funds.            *)
C33_RefundsWithinInvoiceAmount == []C33_State /\ [][C33_Step]_vars

C33_Witness ==
    /\ last = Call("refund_invoice", "ok")
    /\ \E i \in StoredIds :
          /\ invoices[i].amount = 1000
          /\ invoices[i].amount_refunded = 1000
          /\ Deposited(i) = 950
    /\ bal["T"]["E1"] = 450

----------------------------------------------------------------------------
(* What a payment costs the payer *)

(* C34 as stated: at every fee rate set_fee can store, rates above 10000    *)
(* bps included, a successful pay_invoice debits the payer exactly the      *)
(* invoice amount in total, never more.                                     *)
C34_AsStated ==
    \A p \in Payers, i \in StoredIds :
        LET r == pay_invoice(p, p, i)
            inv == invoices[i]
        IN  r.err = "ok" =>
              r.bal[inv.token][p] = bal[inv.token][p] - inv.amount

(* At rates within 0..10000 bps the payer is debited exactly the amount *)
C34_WithinDenominator ==
    \A p \in Payers, i \in StoredIds :
        LET r == pay_invoice(p, p, i)
            inv == invoices[i]
        IN  (r.err = "ok" /\ get_fee(inv.token) <= BPS_DENOMINATOR) =>
              r.bal[inv.token][p] = bal[inv.token][p] - inv.amount

(* An invoice of 1000 paid at 20000 bps has cost the payer 2000 *)
C34_Witness ==
    /\ last = Call("pay_invoice", "ok")
    /\ get_fee("T") = 20000
    /\ \E i \in StoredIds :
          /\ invoices[i].amount = 1000
          /\ invoices[i].status = "Paid"
          /\ invoices[i].payer = "P1"
    /\ bal["T"]["P1"] = OpeningBalance("P1") - 2000
    /\ bal["T"][Engine] = 2000
    /\ bal["T"]["E1"] = OpeningBalance("E1")

----------------------------------------------------------------------------
(* Payer and payment date of an invoice *)

PaidStatuses == {"Paid", "PartiallyRefunded", "Refunded"}

C35_State ==
    \A i \in StoredIds :
        LET inv == invoices[i]
        IN  /\ inv.payer # NoAddr <=> inv.status \in PaidStatuses
            /\ inv.date_paid # NoTime <=> inv.status \in PaidStatuses
            /\ inv.status \in PaidStatuses =>
                  /\ inv.payer \in Payers
                  /\ inv.date_paid >= inv.date_created
                  /\ inv.date_paid <= now
            (* the refund's branches for a missing date_paid or payer *)
            /\ ~(RefundableStatus(inv.status)
                    /\ (inv.date_paid = NoTime \/ inv.payer = NoAddr))

C35_Step ==
    \A i \in StoredIds :
        invoices[i].status \in PaidStatuses =>
            /\ i \in 1..Len(invoices')
            /\ invoices'[i].status \in PaidStatuses
            /\ invoices'[i].payer = invoices[i].payer
            /\ invoices'[i].date_paid = invoices[i].date_paid

(* C35: in every reachable state an invoice has payer and date_paid set     *)
(* exactly when its status is Paid, PartiallyRefunded or Refunded; then     *)
(* date_paid >= date_created under the non-decreasing clock; payer and      *)
(* date_paid never change after the payment; so refund_invoice_partial      *)
(* never finds date_paid or payer missing on a refundable invoice.          *)
C35_PayerAndDatePaid == []C35_State /\ [][C35_Step]_vars

(* A paid invoice, paid later than it was created, has been refunded in     *)
(* part and keeps its payer and date *)
C35_Witness ==
    /\ last = Call("refund_invoice_partial", "ok")
    /\ \E i \in StoredIds :
          /\ invoices[i].status = "PartiallyRefunded"
          /\ invoices[i].payer = "P1"
          /\ invoices[i].date_created = 0
          /\ invoices[i].date_paid = MAX_REFUND_DURATION
          /\ now = MAX_REFUND_DURATION + 1

----------------------------------------------------------------------------
(* Several invoices side by side: merchants create up to MaxListed invoices *)
(* of the listed amounts, payers pay them, the owners void and refund them, *)
(* and the clock advances                                                   *)

NextMany ==
    \/ \E t \in Tokens : AddAcceptedToken(Admin0, Admin0, t)
    \/ \E m \in MerchantAddrs, a \in ListedAmounts, t \in Tokens :
          CreateInvoiceUpTo(MaxListed, m, m, a, t)
    \/ \E p \in Payers, i \in StoredIds : PayInvoice(p, p, i)
    \/ \E i \in StoredIds : VoidInvoice(OwnerOf(i), OwnerOf(i), i)
    \/ \E i \in StoredIds : RefundInvoice(OwnerOf(i), OwnerOf(i), i)
    \/ \E i \in StoredIds, a \in RefundAmounts :
          RefundInvoicePartial(OwnerOf(i), i, a)
    \/ \E t \in TimePoints : Tick(t)

SpecMany == Init /\ [][NextMany]_vars

InvoiceFields ==
    {"id", "description", "amount", "token", "status", "merchant_id", "payer",
     "date_created", "date_paid", "amount_refunded"}

(* The fields an operation may write in the invoice it acts on *)
WrittenFields(op) ==
    CASE op = "pay_invoice" -> {"status", "payer", "date_paid"}
      [] op = "void_invoice" -> {"status"}
      [] op \in {"refund_invoice", "refund_invoice_partial"} ->
            {"status", "amount_refunded"}
      [] OTHER -> {}

ChangedFields(i) ==
    {f \in InvoiceFields : invoices'[i][f] # invoices[i][f]}

ChangedInvoices == {i \in StoredIds : invoices'[i] # invoices[i]}

C36_Step ==
    /\ Len(invoices') >= Len(invoices)
    (* InvoiceCount moves only by a successful create_invoice, by one *)
    /\ Len(invoices') # Len(invoices) =>
          /\ last' = Call("create_invoice", "ok")
          /\ Len(invoices') = Len(invoices) + 1
          /\ ChangedInvoices = {}
    /\ Cardinality(ChangedInvoices) <= 1
    /\ \A i \in StoredIds :
          /\ ChangedFields(i) \subseteq WrittenFields(last'.op)
          /\ ChangedFields(i) # {} => last'.err = "ok"

(* C36: after creation an invoice's id, description, amount, token,         *)
(* merchant_id and date_created never change; pay_invoice changes only      *)
(* status, payer and date_paid, void_invoice only status, the refunds only  *)
(* status and amount_refunded; no operation on one invoice changes another  *)
(* invoice or InvoiceCount.                                                 *)
C36_FieldsWritten == [][C36_Step]_vars

(* Two invoices, the first paid and then refunded in part while the second  *)
(* stays as created *)
C36_Witness ==
    /\ last = Call("refund_invoice_partial", "ok")
    /\ Len(invoices) = 2
    /\ invoices[1].status = "PartiallyRefunded"
    /\ invoices[1].amount_refunded = 275
    /\ invoices[2] = [NewInvoice(2, "d", 10, "T", 1) EXCEPT !.date_created = 0]
    /\ now > 0

----------------------------------------------------------------------------
(* Calls on one invoice, one after another in any order *)

C37_State ==
    \A i \in StoredIds :
        LET inv == invoices[i]
        IN  (* a second payment, or a payment after a void, is rejected and *)
            (* debits nobody *)
            /\ inv.status # "Pending" =>
                  \A p \in Payers :
                      /\ pay_invoice(p, p, i).err = "InvalidInvoiceStatus"
                      /\ Unchanged(pay_invoice(p, p, i))
            (* a void after a payment is rejected *)
            /\ inv.status # "Pending" =>
                  /\ void_invoice(OwnerOf(i), OwnerOf(i), i).err
                        = "InvalidInvoiceStatus"
                  /\ Unchanged(void_invoice(OwnerOf(i), OwnerOf(i), i))
            (* paid and voided exclude each other *)
            /\ inv.status = "Cancelled" =>
                  inv.payer = NoAddr /\ inv.amount_refunded = 0
            (* the refunds so far total at most the amount *)
            /\ inv.amount_refunded <= inv.amount

C37_Step ==
    (* a payment succeeds only on a Pending invoice, leaves the others as   *)
    (* they are and debits only its payer *)
    /\ last' = Call("pay_invoice", "ok") =>
          \E i \in StoredIds :
              LET inv == invoices[i]
                  after == invoices'[i]
              IN  /\ inv.status = "Pending" /\ after.status = "Paid"
                  /\ bal'[inv.token][after.payer] < bal[inv.token][after.payer]
                  /\ \A p \in Payers \ {after.payer} :
                        bal'[inv.token][p] = bal[inv.token][p]
                  /\ \A j \in StoredIds \ {i} : invoices'[j] = invoices[j]
    /\ last' = Call("void_invoice", "ok") =>
          \E i \in StoredIds :
              /\ invoices[i].status = "Pending"
              /\ invoices'[i].status = "Cancelled"
              /\ \A j \in StoredIds \ {i} : invoices'[j] = invoices[j]
    (* no balance of a payer falls except by a successful payment *)
    /\ \A p \in Payers, t \in Tokens :
          bal'[t][p] < bal[t][p] => last' = Call("pay_invoice", "ok")
    /\ \A i \in StoredIds :
        LET inv == invoices[i]
            after == invoices'[i]
        IN  (* no way back to Pending, out of Cancelled, or from paid to    *)
            (* voided *)
            /\ inv.status # "Pending" => after.status # "Pending"
            /\ inv.status = "Cancelled" => after = inv
            /\ inv.status \in PaidStatuses => after.status \in PaidStatuses
            /\ after.status # inv.status =>
                  /\ last'.err = "ok"
                  /\ last'.op \in {"pay_invoice", "void_invoice",
                                   "refund_invoice", "refund_invoice_partial"}
            (* each refund hands the payer what it adds to amount_refunded *)
            /\ after.amount_refunded >= inv.amount_refunded
            /\ after.amount_refunded # inv.amount_refunded =>
                  /\ last'.op \in {"refund_invoice", "refund_invoice_partial"}
                  /\ last'.err = "ok"
                  /\ bal'[inv.token][inv.payer] - bal[inv.token][inv.payer]
                        = after.amount_refunded - inv.amount_refunded

(* C37: however the serialized calls on one invoice interleave, of two      *)
(* pay_invoice calls on the same Pending invoice exactly one succeeds and   *)
(* only its payer is debited, once; pay_invoice and void_invoice on the     *)
(* same Pending invoice never both succeed; the successful refunds total    *)
(* at most the invoice amount.                                              *)
C37_SerializedCalls == []C37_State /\ [][C37_Step]_vars

(* The second payer's call on the invoice the first one has paid *)
C37_Witness ==
    /\ last = Call("pay_invoice", "InvalidInvoiceStatus")
    /\ \E i \in StoredIds :
          /\ invoices[i].status = "Paid"
          /\ invoices[i].payer = "P1"
          /\ invoices[i].amount = 1000
    /\ bal["T"]["P1"] = OpeningBalance("P1") - 1000
    /\ bal["T"]["P2"] = OpeningBalance("P2")

----------------------------------------------------------------------------
(* Invoices across the whole range of amounts: the merchant creates         *)
(* invoices of small and of the largest amounts, the admin sets fee rates   *)
(* up to the denominator, and a payer holding the token's whole supply pays *)

WideAmounts == {1000, MaxSigned \div 3, MaxSigned}

WideRates == {0, 500, BPS_DENOMINATOR}

InitWide ==
    /\ admin = Admin0
    /\ contractInfo = [admin |-> Admin0, timestamp |-> 0]
    /\ paused = FALSE
    /\ acceptedTokens = {}
    /\ feeBps = [t \in Tokens |-> 0]
    /\ merchants = <<"M1", "M2">>
    /\ merchantAccount = [m \in MerchantAddrs |-> IF m = "M1" THEN EscrowOf(m) ELSE NoAddr]
    /\ invoices = <<>>
    /\ bal = [t \in Tokens |-> [a \in Addrs |-> IF a = "P1" THEN MaxSigned ELSE 0]]
    /\ restricted = [e \in Escrows |-> FALSE]
    /\ tracked = [e \in Escrows |-> <<>>]
    /\ accountEvents = <<>>
    /\ roles = {}
    /\ engineEvents = <<>>
    /\ now = 0
    /\ last = NoCall

NextWide ==
    \/ \E t \in Tokens : AddAcceptedToken(Admin0, Admin0, t)
    \/ \E t \in Tokens, f \in WideRates : SetFee(Admin0, Admin0, t, f)
    \/ \E a \in WideAmounts, t \in Tokens :
          CreateInvoiceUpTo(MaxListed, "M1", "M1", a, t)
    \/ \E i \in StoredIds : PayInvoice("P1", "P1", i)

SpecWide == InitWide /\ [][NextWide]_vars

(* floor(amount * fee_bps / 10000) without forming the product *)
FeeAmountExact(amount, fee_bps) ==
    (amount \div BPS_DENOMINATOR) * fee_bps
        + ((amount % BPS_DENOMINATOR) * fee_bps) \div BPS_DENOMINATOR

(* The invoices the claim is about: Pending, in an accepted token, the      *)
(* merchant's escrow recorded, the payer holding the amount, the fee rate   *)
(* within 0..10000 *)
Payable(p, i) ==
    /\ ~is_paused
    /\ invoices[i].status = "Pending"
    /\ is_accepted_token(invoices[i].token)
    /\ get_merchant_account(invoices[i].merchant_id) # NoAddr
    /\ bal[invoices[i].token][p] >= invoices[i].amount
    /\ get_fee(invoices[i].token) \in 0..BPS_DENOMINATOR

(* C38 as stated: for every amount create_invoice accepts and every fee     *)
(* rate in 0..10000, amount * fee_bps stays within the signed range, so     *)
(* every Pending invoice with an accepted token, a recorded escrow and a    *)
(* funded payer can be paid.                                                *)
C38_AsStated ==
    \A p \in Payers, i \in StoredIds :
        Payable(p, i) =>
            /\ ~MulOverflows(invoices[i].amount, get_fee(invoices[i].token))
            /\ \A overflow_checks \in BOOLEAN :
                  LET r == pay_invoice_build(overflow_checks, p, p, i)
                  IN  /\ r.err = "ok"
                      /\ r.fee = FeeAmountExact(invoices[i].amount,
                                                get_fee(invoices[i].token))

(* Amounts up to the largest value divided by 10000 can be paid at every    *)
(* rate within 0..10000, by either build *)
C38_SmallAmounts ==
    \A p \in Payers, i \in StoredIds :
        (Payable(p, i) /\ invoices[i].amount <= MaxSigned \div BPS_DENOMINATOR) =>
            /\ ~MulOverflows(invoices[i].amount, get_fee(invoices[i].token))
            /\ \A overflow_checks \in BOOLEAN :
                  pay_invoice_build(overflow_checks, p, p, i).err = "ok"

(* The two builds of pay_invoice do the same *)
PayBuildsAgree ==
    \A p \in Payers, i \in StoredIds : \A s \in SignersFor(p) :
        pay_invoice_build(FALSE, s, p, i) = pay_invoice_build(TRUE, s, p, i)

(* The payment of an invoice of the largest amount at 500 bps has panicked  *)
(* on the product *)
C38_Witness ==
    /\ last = Call("pay_invoice", "ArithmeticOverflow")
    /\ get_fee("T") = 500
    /\ \E i \in StoredIds :
          /\ invoices[i].amount = MaxSigned
          /\ Payable("P1", i)

(* The build without overflow checks has taken a wrapped fee *)
C38_Wrapped ==
    /\ last = Call("pay_invoice", "ok")
    /\ get_fee("T") = 500
    /\ \E i \in StoredIds :
          /\ invoices[i].amount = MaxSigned \div 3
          /\ invoices[i].status = "Paid"
          /\ bal["T"][Engine] # FeeAmountExact(invoices[i].amount, 500)

----------------------------------------------------------------------------
(* After the refund window *)

PastWindow(i) ==
    /\ invoices[i].status \in PaidStatuses
    /\ now > invoices[i].date_paid + MAX_REFUND_DURATION

C40_State ==
    \A i \in StoredIds :
        PastWindow(i) =>
            /\ \A m \in MerchantArgs : \A s \in SignersFor(m) :
                  /\ refund_invoice(s, m, i).err # "ok"
                  /\ Unchanged(refund_invoice(s, m, i))
            /\ \A s \in MerchantArgs, a \in RefundAmounts :
                  /\ refund_invoice_partial(s, i, a).err # "ok"
                  /\ Unchanged(refund_invoice_partial(s, i, a))
            (* the remainder, requested by the owner, fails on the window *)
            /\ invoices[i].status # "Refunded" =>
                  refund_invoice(OwnerOf(i), OwnerOf(i), i).err
                      = "RefundPeriodExpired"

C40_Step ==
    \A i \in StoredIds :
        PastWindow(i) =>
            /\ now' >= now
            /\ invoices'[i] = invoices[i]
            (* what leaves an escrow leaves it for another invoice *)
            /\ \A e \in Escrows, t \in Tokens :
                  bal'[t][e] < bal[t][e] =>
                      \E j \in StoredIds \ {i} :
                          invoices'[j].amount_refunded
                              = invoices[j].amount_refunded
                                   + (bal[t][e] - bal'[t][e])
            /\ (/\ last'.op \in {"refund_invoice", "refund_invoice_partial"}
                /\ last'.err = "ok") =>
                  /\ \E j \in StoredIds \ {i} : invoices'[j] # invoices[j]
                  /\ \A ev \in {engineEvents'[k] : k \in 1..Len(engineEvents')} :
                        ev.invoice_id # i

(* C40: under the non-decreasing clock, once now > date_paid + 604800 for a *)
(* paid invoice every later refund_invoice and refund_invoice_partial on it *)
(* fails: its status and amount_refunded stay as they are and no tokens     *)
(* leave the escrow on its behalf.                                          *)
C40_RefundWindowCloses == []C40_State /\ [][C40_Step]_vars

(* The owner's refund of an invoice refunded in part within the window,     *)
(* one second after the window closed *)
C40_Witness ==
    /\ last = Call("refund_invoice", "RefundPeriodExpired")
    /\ now = MAX_REFUND_DURATION + 1
    /\ \E i \in StoredIds :
          /\ invoices[i].date_paid = 0
          /\ invoices[i].status = "PartiallyRefunded"
          /\ invoices[i].amount_refunded = 275
          /\ PastWindow(i)

====
